---- MODULE Spec2Model ----
(***************************************************************************)
(* Recording / transcription pipeline of the dictation utility:            *)
(*   AudioRecorder      (app/whisperkey/audio_recorder.py)                  *)
(*   RecordingThread,                                                       *)
(*   WhisperKeyApp      (app/whisperkey/main.py)                            *)
(*   StreamingTranscriber (app/voxvibe/streaming_transcriber.py)            *)
(*   LLMProcessor       (app/voxvibe/llm_processor.py)                      *)
(*                                                                         *)
(* Threads are modelled by their position (a pc); one action is one        *)
(* uninterrupted piece of a method.  A blocking external call (a pactl     *)
(* subprocess, opening the PortAudio stream, waiting for parec to die)     *)
(* is a position of its own, so that a bounded join can time out there.    *)
(***************************************************************************)
EXTENDS Integers, Sequences, FiniteSets, TLC

\* ------------------------------------------------------ program constants
\* min_recording_time = 0.5 (main.py:67), in ms
min_recording_time == 500
\* audio_recorder.py:12: channels=1
channels == 1
\* audio_recorder.py:202: max_no_data = 50
max_no_data == 50
\* self.recording_thread.wait(2000) (main.py:371), in ms
thread_wait_ms == 2000

\* ---------------------------------------------------------------- bounds
\* the clock advances in steps of TickMs milliseconds
TickMs == 500
\* capture threads that can be spawned in one behaviour
MaxThreads == 2
\* audio chunks that can be delivered in one behaviour
MaxChunks == 2
\* the audio one chunk of the model stands for, in ms (blocks of 512 frames
\* at 16000 Hz, audio_recorder.py:12, 96 and 199, taken several at a time)
ChunkMs == 250
\* calls of transcribe_streaming in one behaviour
MaxRequests == 2
\* calls of process_text_async / process_text_async_with_context in one
\* behaviour of the processor
MaxJobs == 2

Threads == 1..MaxThreads
\* a request is the number of the transcribe_streaming call that brought it
Requests == 1..MaxRequests
\* a cleanup job is the number of the call that started it
Jobs == 1..MaxJobs
\* None for a thread / stream / subprocess reference
NoRef == 0

VARIABLES
  \* ---- AudioRecorder fields (audio_recorder.py:12-23)
  is_recording,        \* self.is_recording
  audio_queue,         \* self.audio_queue: chunks of the current queue object
  recording_thread,    \* self.recording_thread: NoRef or a thread
  stream,              \* self.stream: NoRef or the thread whose InputStream it is
  pulseaudio_process,  \* self.pulseaudio_process: NoRef or the thread whose parec it is
  \* ---- capture threads and the OS objects they open
  tpc,                 \* position of each capture thread
  handle,              \* the stream / subprocess each thread opened
  nchunks,             \* chunks delivered so far (a chunk is its arrival number)
  no_data_count,       \* the piped loop's local no_data_count of each thread
  \* ---- the thread that calls start_recording / stop_recording
  cpc,                 \* its position
  audio_chunks,        \* stop_recording's local list audio_chunks
  forced,              \* stop_recording took the is_alive() branch (line 314)
  audio_data,          \* value returned by the last stop_recording
  \* ---- RecordingThread and WhisperKeyApp (main.py)
  should_stop,         \* RecordingThread.should_stop
  stop_early,          \* history: the pending stop came before the floor
  since_start,         \* ms from start_time to now (kept up to the floor)
  apc,                 \* position of the event thread in WhisperKeyApp
  wait_elapsed,        \* ms the event thread has spent in wait(2000)
  \* ---- StreamingTranscriber and LLMProcessor (app/voxvibe)
  is_transcribing,     \* StreamingTranscriber.is_transcribing
  raw_transcription,   \* self.raw_transcription: NoRef (no attribute) or a request
  llm_enabled,         \* LLMProcessor.is_enabled()
  nreq,                \* calls of transcribe_streaming so far
  wpc,                 \* position of the worker thread of each request
  stt_result,          \* the worker's local `text`: what the engine returned
  llm,                 \* state of the cleanup job of each request
  active,              \* LLMProcessor._active_threads / _active_workers
  events,              \* the signals emitted so far, in order of emission
  \* ---- LLMProcessor on its own (app/voxvibe/llm_processor.py)
  _active_threads,     \* self._active_threads: the jobs whose QThread is listed
  _active_workers,     \* self._active_workers: the jobs whose worker is listed
  ncalls,              \* calls of process_text_async[_with_context] so far
  ppc,                 \* position of the thread inside such a call
  job,                 \* per job: entry point, raw_text, the worker's result
  jpc,                 \* position of the QThread of each job
  hq,                  \* per job: the processor's handler queued on the event thread
  psignals,            \* signals of the processor emitted so far
  provider_requests,   \* jobs that sent a request to the provider
  kpc,                 \* position of the event thread inside cleanup()
  k_copy,              \* cleanup()'s copy self._active_threads[:], what is left of it
  nremoved,            \* per job: removals of its thread and of its worker
  raised,              \* jobs whose cleanup closure raised
  released,            \* jobs whose worker was handed to deleteLater
  terminated,          \* jobs whose QThread got terminate()
  \* AudioDeviceManager (audio_device_manager.py) and the sound server
  audio_system,        \* "pulseaudio", "pipewire" or "unknown"
  preferred_mic_device,
  preferred_output_device,
  dictating_mic,
  dictating_output,
  normal_mic,
  normal_output,
  switching_enabled,
  four_device_mode,
  bluetooth_switching_enabled,
  default_source,      \* the sound server's default source
  default_sink,        \* the sound server's default sink
  card_profile,        \* per Bluetooth card: its active profile
  card_detect,         \* per Bluetooth card: what the inspection yields
  configured,          \* the mode configured last: "none", "legacy", "four"
  last_call,           \* the last start/stop switch: what it did
  cmds,                \* the device-control commands the last switch issued
  headset_forced,      \* cards the last start switch put in a headset profile
  before,              \* the default devices when the last switch began
  \* WhisperKeyApp's handlers step by step (main.py:320-390)
  devices,             \* the pair the app switched to last
  stop_sound,          \* play_stop() was called by the current stop handler
  app_forced,          \* the current stop handler called force_cleanup()
  \* LLMProcessor._clean_dictated_text_with_context (llm_processor.py:265-271)
  dictated,            \* the dictated text (raw_text)
  xpc,                 \* "input", "extracted", "resolved"
  cleaned_raw,         \* the text _extract_explicit_context returns
  explicit_ctx,        \* the context it returns, or "None"
  base_text,           \* the text handed to the prompt assembly
  ctx_type,        \* the context resolved
  \* DBusHotkeyManager (dbus_hotkey_manager.py:39-115)
  _recording,          \* DBusHotkeyManager._recording
  mode,                \* DBusHotkeyManager.mode: "idle" or "hands_free"
  hpc,                 \* where _handle_toggle_recording stands
  callbacks,           \* the callbacks it has invoked, in order
  \* the clipboard and the paste timers (main.py:471-548)
  clipboard,           \* the text the clipboard holds
  timers,              \* the single-shot timers pending: <<method, text>>
  injected,            \* the pastes injected: <<text handed over, text pasted>>
  \* VoxVibeSettings (voxvibe/settings_dialog.py:30-229)
  config_file,         \* the content of settings.json, or why there is none
  _settings,           \* VoxVibeSettings._settings, or Unset
  vpc                  \* where the constructor stands

recVars == <<is_recording, audio_queue, recording_thread, stream,
             pulseaudio_process>>
thrVars == <<tpc, handle, nchunks, no_data_count>>
cliVars == <<cpc, audio_chunks, forced, audio_data>>
sesVars == <<should_stop, stop_early, since_start, apc, wait_elapsed>>
trVars == <<is_transcribing, raw_transcription, llm_enabled, nreq, wpc,
            stt_result, llm, active, events>>
lpVars == <<_active_threads, _active_workers, ncalls, ppc, job, jpc, hq,
            psignals, provider_requests, kpc, k_copy, nremoved, raised,
            released, terminated>>
dmVars == <<audio_system, preferred_mic_device, preferred_output_device,
            dictating_mic, dictating_output, normal_mic, normal_output,
            switching_enabled, four_device_mode, bluetooth_switching_enabled,
            default_source, default_sink, card_profile, card_detect,
            configured, last_call, cmds, headset_forced, before>>
appVars == <<devices, stop_sound, app_forced>>
ctxVars == <<dictated, xpc, cleaned_raw, explicit_ctx, base_text,
             ctx_type>>
hkVars == <<_recording, mode, hpc, callbacks>>
pasteVars == <<clipboard, timers, injected>>
cfgVars == <<config_file, _settings, vpc>>
\* the recorder, the session and the transcriber
baseVars == <<recVars, thrVars, cliVars, sesVars, trVars>>
\* the components modelled on their own
extVars == <<lpVars, dmVars, appVars, ctxVars, hkVars, pasteVars, cfgVars>>
\* everything but the processor
notLpVars == <<baseVars, dmVars, appVars, ctxVars, hkVars, pasteVars,
               cfgVars>>
\* everything but the device manager
notDmVars == <<baseVars, lpVars, appVars, ctxVars, hkVars, pasteVars,
               cfgVars>>
\* everything but the context resolution
notCtxVars == <<baseVars, lpVars, dmVars, appVars, hkVars, pasteVars,
                cfgVars>>
\* everything the recorder does not touch
nonRecVars == <<sesVars, trVars, extVars>>

vars == <<recVars, thrVars, cliVars, nonRecVars>>

\* ------------------------------------------------------------- values
\* stop_recording's result: None, or the buffer built from the chunks
Null == <<"null", <<>> >>
\* what the user copied to the clipboard before any paste of the application
UserCopied == <<"copied", 0>>
\* an attribute of an object that no assignment has created
Unset == <<>>
\* settings.json: whether the file exists, and the dictionary json.load
\* returns, if it returns one
Absent == [exists |-> FALSE, json |-> <<>>]
Buffer(chunks) ==
  LET \* indata.copy() (line 85), reshape(-1, channels) (line 229-232):
      \* chunk n is a 2-D array, here of one frame whose channels all carry n
      chunk_array(n) == <<[c \in 1..channels |-> n]>>
      \* np.concatenate(audio_chunks, axis=0), line 337
      RECURSIVE concatenate(_)
      concatenate(arrays) ==
        IF arrays = <<>> THEN <<>>
                         ELSE Head(arrays) \o concatenate(Tail(arrays))
      RECURSIVE Sum(_)
      Sum(frame) == IF frame = <<>> THEN 0 ELSE Head(frame) + Sum(Tail(frame))
      audio == concatenate([i \in 1..Len(chunks) |-> chunk_array(chunks[i])])
      \* np.mean(audio_data, axis=1), line 340-341
  IN  <<"buf", [i \in 1..Len(audio) |-> Sum(audio[i]) \div Len(audio[i])]>>

\* threading.Thread.is_alive()
is_alive(t) == tpc[t] \notin {"unborn", "dead"}

\* positions at which a capture thread runs its capture loop
\* (audio_recorder.py:109-110 and 205-252)
CaptureLoopPcs == {"sd_loop", "pa_loop", "pa_read", "pa_put"}

\* positions at which a capture thread sits in an external call that can
\* take longer than the 1 s join: the pactl probe (timeout 2 s), opening the
\* stream, the pactl set-up calls (timeout 3 s each), and the release of the
\* stream / the wait for parec (timeout 2 s)
BlockingPcs == {"probe", "sd_open", "pa_setup", "cleanup"}

TypeOK ==
  /\ is_recording \in BOOLEAN
  /\ audio_queue \in Seq(1..MaxChunks)
  /\ recording_thread \in Threads \cup {NoRef}
  /\ stream \in Threads \cup {NoRef}
  /\ pulseaudio_process \in Threads \cup {NoRef}
  /\ tpc \in [Threads -> {"unborn", "probe", "sd_open", "sd_loop",
                          "pa_setup", "pa_check", "pa_loop", "pa_read",
                          "pa_put", "cleanup", "dead"}]
  /\ handle \in [Threads -> {"none", "created", "started", "running", "closed"}]
  /\ nchunks \in 0..MaxChunks
  /\ no_data_count \in [Threads -> 0..(max_no_data + 1)]
  /\ forced \in BOOLEAN

\* ------------------------------------------------------ AudioRecorder
\* __init__ (audio_recorder.py:12-23)
RecInit ==
  /\ is_recording = FALSE
  /\ audio_queue = <<>>
  /\ recording_thread = NoRef
  /\ stream = NoRef
  /\ pulseaudio_process = NoRef
  /\ tpc = [t \in Threads |-> "unborn"]
  /\ handle = [t \in Threads |-> "none"]
  /\ nchunks = 0
  /\ no_data_count = [t \in Threads |-> 0]
  /\ cpc = "idle"
  /\ audio_chunks = <<>>
  /\ forced = FALSE
  /\ audio_data = Null

\* _cleanup_stream (audio_recorder.py:266-296): whatever self.stream and
\* self.pulseaudio_process refer to is stopped / terminated, and both
\* fields are cleared
HandleAfterCleanup ==
  [u \in Threads |->
     IF u = stream \/ u = pulseaudio_process THEN "closed" ELSE handle[u]]

_cleanup_stream ==
  /\ handle' = HandleAfterCleanup
  /\ stream' = NoRef
  /\ pulseaudio_process' = NoRef

\* force_cleanup (audio_recorder.py:371-397).  sd.stop() only stops the
\* library's own play()/rec() stream and gc.collect() frees nothing that
\* is still referenced, so neither touches a stream a thread holds.
force_cleanup ==
  /\ is_recording' = FALSE
  /\ _cleanup_stream

\* ---- start_recording (audio_recorder.py:30-50), run by the calling thread
\* start_recording without its "already recording" guard
start_recording_check_unguarded(ret) ==
  /\ cpc = "start_check"
  /\ IF recording_thread # NoRef /\ is_alive(recording_thread)
       THEN cpc' = "start_fc"
       ELSE cpc' = "start_spawn"
  /\ UNCHANGED <<recVars, thrVars, audio_chunks, forced, audio_data, nonRecVars>>

\* line 32-40: the guard and the test of the previous thread
start_recording_check(ret) ==
  /\ cpc = "start_check"
  /\ IF is_recording
       THEN cpc' = ret
       ELSE IF recording_thread # NoRef /\ is_alive(recording_thread)
              THEN cpc' = "start_fc"
              ELSE cpc' = "start_spawn"
  /\ UNCHANGED <<recVars, thrVars, audio_chunks, forced, audio_data, nonRecVars>>

\* line 39-40
start_recording_force_cleanup ==
  /\ cpc = "start_fc"
  /\ force_cleanup
  /\ cpc' = "start_spawn"
  /\ UNCHANGED <<audio_queue, recording_thread, tpc, nchunks, no_data_count,
                 audio_chunks, forced, audio_data, nonRecVars>>

\* line 43-49
start_recording_spawn(ret) ==
  /\ cpc = "start_spawn"
  /\ \E t \in Threads :
       /\ tpc[t] = "unborn"
       /\ \A u \in Threads : u < t => tpc[u] # "unborn"
       /\ is_recording' = TRUE
       /\ audio_queue' = <<>>
       /\ recording_thread' = t
       /\ tpc' = [tpc EXCEPT ![t] = "probe"]
  /\ cpc' = ret
  /\ UNCHANGED <<stream, pulseaudio_process, handle, nchunks, no_data_count,
                 audio_chunks, forced, audio_data, nonRecVars>>

\* ---- stop_recording (audio_recorder.py:298-344)
\* line 302-307
stop_recording_check(ret) ==
  /\ cpc = "stop_check"
  /\ IF ~is_recording
       THEN /\ cpc' = ret
            /\ audio_data' = Null
            /\ UNCHANGED is_recording
       ELSE /\ cpc' = "stop_join"
            /\ is_recording' = FALSE
            /\ UNCHANGED audio_data
  /\ UNCHANGED <<audio_queue, recording_thread, stream, pulseaudio_process,
                 thrVars, audio_chunks, forced, nonRecVars>>

\* line 310-318: join(timeout=1.0), then is_alive()
stop_recording_join ==
  /\ cpc = "stop_join"
  /\ \/ /\ recording_thread = NoRef
        /\ forced' = FALSE
        /\ cpc' = "stop_drain"
     \/ /\ recording_thread # NoRef
        /\ ~is_alive(recording_thread)
        /\ forced' = FALSE
        /\ cpc' = "stop_drain"
     \/ /\ recording_thread # NoRef
        /\ tpc[recording_thread] \in BlockingPcs
        /\ forced' = TRUE
        /\ cpc' = "stop_fc"
  /\ audio_chunks' = <<>>
  /\ UNCHANGED <<recVars, thrVars, audio_data, nonRecVars>>

\* line 316
stop_recording_force_cleanup ==
  /\ cpc = "stop_fc"
  /\ force_cleanup
  /\ cpc' = "stop_drain"
  /\ UNCHANGED <<audio_queue, recording_thread, tpc, nchunks, no_data_count,
                 audio_chunks, forced, audio_data, nonRecVars>>

\* line 323-328: one turn of the drain loop
stop_recording_drain ==
  /\ cpc = "stop_drain"
  /\ IF audio_queue # <<>>
       THEN /\ audio_chunks' = Append(audio_chunks, Head(audio_queue))
            /\ audio_queue' = Tail(audio_queue)
            /\ cpc' = "stop_drain"
       ELSE /\ cpc' = "stop_ret"
            /\ UNCHANGED <<audio_queue, audio_chunks>>
  /\ UNCHANGED <<is_recording, recording_thread, stream, pulseaudio_process,
                 thrVars, forced, audio_data, nonRecVars>>

\* stop_recording without its "no chunks" test: np.concatenate's result
\* is returned whatever was collected
stop_recording_return_always_buffer(ret) ==
  /\ cpc = "stop_ret"
  /\ audio_data' = Buffer(audio_chunks)
  /\ cpc' = ret
  /\ audio_chunks' = <<>>
  /\ forced' = FALSE
  /\ UNCHANGED <<recVars, thrVars, nonRecVars>>

\* line 332-344: None when nothing was collected, else the concatenation
stop_recording_return(ret) ==
  /\ cpc = "stop_ret"
  /\ audio_data' = IF audio_chunks = <<>> THEN Null ELSE Buffer(audio_chunks)
  /\ cpc' = ret
  /\ audio_chunks' = <<>>
  /\ forced' = FALSE
  /\ UNCHANGED <<recVars, thrVars, nonRecVars>>

\* ---- the capture thread: _record_with_timeout (audio_recorder.py:52-73)
\* line 58-65: _wait_for_bluetooth_microphone_if_needed (399-430) asks pactl
\* for the default source, sets self.use_pulseaudio from the answer and
\* never raises; line 60 reads the field back and chooses the strategy.
\* The answer is the environment's, so the field is not kept: whatever a
\* thread reads at line 60 is some answer of pactl.
record_with_timeout_select(t) ==
  /\ tpc[t] = "probe"
  /\ \E use_pulseaudio \in BOOLEAN :
       tpc' = [tpc EXCEPT ![t] = IF use_pulseaudio THEN "pa_setup" ELSE "sd_open"]
  /\ UNCHANGED <<recVars, handle, nchunks, no_data_count, cliVars, nonRecVars>>

\* _record_with_sounddevice, line 90-105 and 114-117: InputStream(...) and
\* stream.start(); either may raise (and the 2 s set-up limit raises after
\* the stream was created), which clears is_recording and returns
record_with_sounddevice_open(t) ==
  /\ tpc[t] = "sd_open"
  /\ \/ /\ stream' = t
        /\ handle' = [handle EXCEPT ![t] = "started"]
        /\ tpc' = [tpc EXCEPT ![t] = "sd_loop"]
        /\ UNCHANGED is_recording
     \/ /\ is_recording' = FALSE
        /\ tpc' = [tpc EXCEPT ![t] = "cleanup"]
        /\ UNCHANGED <<stream, handle>>
     \/ /\ stream' = t
        /\ handle' = [handle EXCEPT ![t] = "created"]
        /\ is_recording' = FALSE
        /\ tpc' = [tpc EXCEPT ![t] = "cleanup"]
  /\ UNCHANGED <<audio_queue, recording_thread, pulseaudio_process,
                 nchunks, no_data_count, cliVars, nonRecVars>>

\* line 109-112: the loop ends when is_recording is false
record_with_sounddevice_loop_exit(t) ==
  /\ tpc[t] = "sd_loop"
  /\ ~is_recording
  /\ tpc' = [tpc EXCEPT ![t] = "cleanup"]
  /\ UNCHANGED <<recVars, handle, nchunks, no_data_count, cliVars, nonRecVars>>

\* audio_callback (line 81-85), run by PortAudio for a started stream
audio_callback(t) ==
  /\ handle[t] = "started"
  /\ is_recording
  /\ nchunks + Cardinality({u \in Threads : tpc[u] = "pa_put"}) < MaxChunks
  /\ nchunks' = nchunks + 1
  /\ audio_queue' = Append(audio_queue, nchunks + 1)
  /\ UNCHANGED <<is_recording, recording_thread, stream, pulseaudio_process,
                 tpc, handle, no_data_count, cliVars, nonRecVars>>

\* _record_with_pulseaudio, line 125-187 and 262-264: the pactl calls (each
\* caught on its own), then Popen(parec); Popen raising clears is_recording
record_with_pulseaudio_setup(t) ==
  /\ tpc[t] = "pa_setup"
  /\ \/ /\ pulseaudio_process' = t
        /\ handle' = [handle EXCEPT ![t] = "running"]
        /\ tpc' = [tpc EXCEPT ![t] = "pa_check"]
        /\ UNCHANGED is_recording
     \/ /\ is_recording' = FALSE
        /\ tpc' = [tpc EXCEPT ![t] = "cleanup"]
        /\ UNCHANGED <<pulseaudio_process, handle>>
  /\ UNCHANGED <<audio_queue, recording_thread, stream, nchunks, no_data_count, cliVars, nonRecVars>>

\* line 190-194: after 0.2 s, self.pulseaudio_process.poll(); a field
\* cleared meanwhile raises AttributeError into line 262-264
record_with_pulseaudio_check(t) ==
  /\ tpc[t] = "pa_check"
  /\ IF pulseaudio_process = NoRef
       THEN /\ is_recording' = FALSE
            /\ tpc' = [tpc EXCEPT ![t] = "cleanup"]
       ELSE /\ tpc' = [tpc EXCEPT ![t] =
                 IF handle[pulseaudio_process] = "running"
                   THEN "pa_loop" ELSE "cleanup"]
            /\ UNCHANGED is_recording
  /\ UNCHANGED <<audio_queue, recording_thread, stream, pulseaudio_process,
                 handle, nchunks, no_data_count, cliVars, nonRecVars>>

\* line 205: the loop condition
record_with_pulseaudio_loop(t) ==
  /\ tpc[t] = "pa_loop"
  /\ tpc' = [tpc EXCEPT ![t] =
       IF /\ is_recording
          /\ pulseaudio_process # NoRef
          /\ handle[pulseaudio_process] = "running"
         THEN "pa_read" ELSE "cleanup"]
  /\ UNCHANGED <<recVars, handle, nchunks, no_data_count, cliVars, nonRecVars>>

\* line 206-252: select + read, with the local no_data_count abstracted to
\* any value it can hold.  A chunk was read; nothing was read; the
\* empty-read limit was passed (break); the field was cleared meanwhile
\* (AttributeError, caught at line 249, continue)
record_with_pulseaudio_read(t) ==
  /\ tpc[t] = "pa_read"
  /\ \/ /\ pulseaudio_process # NoRef
        /\ handle[pulseaudio_process] = "running"
        /\ nchunks + Cardinality({u \in Threads : tpc[u] = "pa_put"}) < MaxChunks
        /\ tpc' = [tpc EXCEPT ![t] = "pa_put"]
     \/ /\ pulseaudio_process # NoRef
        /\ tpc' = [tpc EXCEPT ![t] = "pa_loop"]
     \/ /\ pulseaudio_process # NoRef
        /\ tpc' = [tpc EXCEPT ![t] = "cleanup"]
     \/ /\ pulseaudio_process = NoRef
        /\ tpc' = [tpc EXCEPT ![t] = "pa_loop"]
  /\ UNCHANGED <<recVars, handle, nchunks, no_data_count, cliVars, nonRecVars>>

\* the empty-read test with >= for >
no_data_limit_passed_early(count) == count >= max_no_data

\* line 237 and 243: if no_data_count > max_no_data: break
no_data_limit_passed(count) == count > max_no_data

\* line 206-252 with the local no_data_count kept.  A chunk was read (line
\* 216-217: the counter is reset); nothing was ready or nothing was read
\* (line 236-246: the counter is incremented, and past the limit the loop is
\* left); the field was cleared meanwhile (AttributeError, caught at line
\* 249, continue)
record_with_pulseaudio_poll(t) ==
  /\ tpc[t] = "pa_read"
  /\ \/ /\ pulseaudio_process # NoRef
        /\ handle[pulseaudio_process] = "running"
        /\ nchunks + Cardinality({u \in Threads : tpc[u] = "pa_put"}) < MaxChunks
        /\ no_data_count' = [no_data_count EXCEPT ![t] = 0]
        /\ tpc' = [tpc EXCEPT ![t] = "pa_put"]
     \/ /\ pulseaudio_process # NoRef
        /\ no_data_count' = [no_data_count EXCEPT ![t] = @ + 1]
        /\ tpc' = [tpc EXCEPT ![t] =
             IF no_data_limit_passed(no_data_count'[t])
               THEN "cleanup" ELSE "pa_loop"]
     \/ /\ pulseaudio_process = NoRef
        /\ tpc' = [tpc EXCEPT ![t] = "pa_loop"]
        /\ UNCHANGED no_data_count
  /\ UNCHANGED <<recVars, handle, nchunks, cliVars, nonRecVars>>

\* line 207-252: select, read, frombuffer or reshape raises; the inner
\* handler (line 249-252) logs, sleeps and continues with the next turn of
\* the loop, no_data_count as it was
record_with_pulseaudio_read_error(t) ==
  /\ tpc[t] = "pa_read"
  /\ tpc' = [tpc EXCEPT ![t] = "pa_loop"]
  /\ UNCHANGED <<recVars, handle, nchunks, no_data_count, cliVars, nonRecVars>>

\* line 222-235: the chunk that was read is converted and queued
record_with_pulseaudio_put(t) ==
  /\ tpc[t] = "pa_put"
  /\ nchunks' = nchunks + 1
  /\ audio_queue' = Append(audio_queue, nchunks + 1)
  /\ tpc' = [tpc EXCEPT ![t] = "pa_loop"]
  /\ UNCHANGED <<is_recording, recording_thread, stream, pulseaudio_process,
                 handle, no_data_count, cliVars, nonRecVars>>

\* parec ends on its own (the source disappears, the server restarts)
parec_exits(t) ==
  /\ handle[t] = "running"
  /\ tpc[t] \in {"pa_check", "pa_loop", "pa_read", "pa_put"}
  /\ handle' = [handle EXCEPT ![t] = "closed"]
  /\ UNCHANGED <<recVars, tpc, nchunks, no_data_count, cliVars, nonRecVars>>

\* line 70-73: finally: self._cleanup_stream(), and the thread ends
record_with_timeout_finally(t) ==
  /\ tpc[t] = "cleanup"
  /\ _cleanup_stream
  /\ tpc' = [tpc EXCEPT ![t] = "dead"]
  /\ no_data_count' = [no_data_count EXCEPT ![t] = 0]
  /\ UNCHANGED <<is_recording, audio_queue, recording_thread, nchunks, cliVars, nonRecVars>>

CaptureThread(t) ==
  \/ record_with_timeout_select(t)
  \/ record_with_sounddevice_open(t)
  \/ record_with_sounddevice_loop_exit(t)
  \/ audio_callback(t)
  \/ record_with_pulseaudio_setup(t)
  \/ record_with_pulseaudio_check(t)
  \/ record_with_pulseaudio_loop(t)
  \/ record_with_pulseaudio_read(t)
  \/ record_with_pulseaudio_read_error(t)
  \/ record_with_pulseaudio_put(t)
  \/ parec_exits(t)
  \/ record_with_timeout_finally(t)

\* ---------------------------------------------- the recorder on its own
\* Any caller: one thread calls start_recording and stop_recording one
\* after the other (as RecordingThread.run does), another may call
\* force_cleanup at any moment (as WhisperKeyApp.stop_recording does).
CallStart ==
  /\ cpc = "idle"
  /\ cpc' = "start_check"
  /\ UNCHANGED <<recVars, thrVars, audio_chunks, forced, audio_data, nonRecVars>>

CallStop ==
  /\ cpc = "idle"
  /\ cpc' = "stop_check"
  /\ UNCHANGED <<recVars, thrVars, audio_chunks, forced, audio_data, nonRecVars>>

CallForceCleanup ==
  /\ force_cleanup
  /\ UNCHANGED <<audio_queue, recording_thread, tpc, nchunks, no_data_count,
                 cliVars, nonRecVars>>

\* RecordingThread.__init__ (main.py:37-42), where start_time = 0 lies far
\* in the past; WhisperKeyApp before any hotkey
SesInit ==
  /\ should_stop = FALSE
  /\ stop_early = FALSE
  /\ since_start = min_recording_time
  /\ apc = "idle"
  /\ wait_elapsed = 0

\* StreamingTranscriber.__init__ (streaming_transcriber.py:46-64) and
\* LLMProcessor.__init__ (llm_processor.py:30-49)
TrInit ==
  /\ is_transcribing = FALSE
  /\ raw_transcription = NoRef
  /\ nreq = 0
  /\ wpc = [r \in Requests |-> "none"]
  /\ stt_result = [r \in Requests |-> "none"]
  /\ llm = [r \in Requests |-> "none"]
  /\ active = {}
  /\ events = <<>>

\* LLMProcessor.__init__ (llm_processor.py:30-49): empty registry, nothing
\* in flight
LpInit ==
  /\ _active_threads = <<>>
  /\ _active_workers = <<>>
  /\ ncalls = 0
  /\ ppc = "idle"
  /\ job = [j \in Jobs |-> [kind |-> "none", raw_text |-> "", call |-> "none",
                             result |-> <<>>]]
  /\ jpc = [j \in Jobs |-> "none"]
  /\ hq = [j \in Jobs |-> "none"]
  /\ psignals = <<>>
  /\ provider_requests = {}
  /\ kpc = "idle"
  /\ k_copy = <<>>
  /\ nremoved = [j \in Jobs |-> [threads |-> 0, workers |-> 0]]
  /\ raised = {}
  /\ released = {}
  /\ terminated = {}

\* ---- device names.  A name is <<form, id>>: source_<n> and sink_<n> are
\* <<"index", n>>, bt_hfp_source_<id> and bt_hfp_sink_<id> are
\* <<"bt_hfp", id>>, bluez_input.<id>.0 and bluez_output.<id>.1 are
\* <<"bluez", id>>; "" and None are kept apart
None == <<"None", "">>
Empty == <<"empty", "">>

\* the Bluetooth cards connected (bluez_card.<id>)
Cards == {"c1"}
\* the order in which `pactl list cards` lists them
CardSeq == <<"c1">>

NoCall == [op |-> "none", branch |-> "none", ok |-> TRUE, paired |-> FALSE]

\* AudioDeviceManager.__init__ (audio_device_manager.py:28-50) on a sound
\* system and with the cards as they are inspected
DmConstructed(system, detect) ==
  /\ audio_system = system
  /\ preferred_mic_device = None
  /\ preferred_output_device = None
  /\ dictating_mic = None
  /\ dictating_output = None
  /\ normal_mic = None
  /\ normal_output = None
  /\ switching_enabled = FALSE
  /\ four_device_mode = FALSE
  /\ bluetooth_switching_enabled = FALSE
  /\ default_source = <<"index", "0">>
  /\ default_sink = <<"index", "0">>
  /\ card_profile = [c \in Cards |-> "a2dp-sink"]
  /\ card_detect = detect
  /\ configured = "none"
  /\ last_call = NoCall
  /\ cmds = <<>>
  /\ headset_forced = {}
  /\ before = [source |-> <<"index", "0">>, sink |-> <<"index", "0">>]

DmInit == DmConstructed("pulseaudio", [c \in Cards |-> "all"])

\* WhisperKeyApp before any session: the normal devices are the defaults
AppInit ==
  /\ devices = "normal"
  /\ stop_sound = FALSE
  /\ app_forced = FALSE

\* DBusHotkeyManager.__init__ (dbus_hotkey_manager.py:39-54)
HkInit ==
  /\ _recording = FALSE
  /\ mode = "idle"
  /\ hpc = "idle"
  /\ callbacks = <<>>

\* the clipboard holds what the user copied last; no paste is scheduled
PasteInit ==
  /\ clipboard = UserCopied
  /\ timers = <<>>
  /\ injected = <<>>

\* a VoxVibeSettings about to be constructed over a settings.json
CfgGiven(file) ==
  /\ config_file = file
  /\ _settings = Unset
  /\ vpc = "init"

CfgInit == CfgGiven(Absent)

\* the context resolution about to be applied to a text
CtxGiven(text) ==
  /\ dictated = text
  /\ xpc = "input"
  /\ cleaned_raw = ""
  /\ explicit_ctx = "None"
  /\ base_text = ""
  /\ ctx_type = "None"

\* the components modelled on their own, as constructed
ExtInit ==
  /\ LpInit /\ DmInit /\ AppInit /\ CtxGiven("")
  /\ HkInit /\ PasteInit /\ CfgInit

\* the transcriber as constructed, with no API key (cleanup disabled)
InitRecorder == RecInit /\ SesInit /\ TrInit /\ ExtInit /\ llm_enabled = FALSE

NextRecorder ==
  \/ CallStart
  \/ CallStop
  \/ CallForceCleanup
  \/ start_recording_check("idle")
  \/ start_recording_force_cleanup
  \/ start_recording_spawn("idle")
  \/ stop_recording_check("idle")
  \/ stop_recording_join
  \/ stop_recording_force_cleanup
  \/ stop_recording_drain
  \/ stop_recording_return("idle")
  \/ \E t \in Threads : CaptureThread(t)

SpecRecorder == InitRecorder /\ [][NextRecorder]_vars

\* ---------------------------- the recorder with the piped loop's counter
\* the capture thread, its piped loop polling with no_data_count kept
CaptureThreadCounted(t) ==
  \/ record_with_timeout_select(t)
  \/ record_with_sounddevice_open(t)
  \/ record_with_sounddevice_loop_exit(t)
  \/ audio_callback(t)
  \/ record_with_pulseaudio_setup(t)
  \/ record_with_pulseaudio_check(t)
  \/ record_with_pulseaudio_loop(t)
  \/ record_with_pulseaudio_poll(t)
  \/ record_with_pulseaudio_read_error(t)
  \/ record_with_pulseaudio_put(t)
  \/ parec_exits(t)
  \/ record_with_timeout_finally(t)

\* recording sessions one after the other: the caller starts the recorder
\* when no earlier capture thread is left (so line 39-40 of start_recording
\* is not reached); it may stop it, and force_cleanup may come at any moment
NextPiped ==
  \/ CallStart /\ \A t \in Threads : tpc[t] \in {"unborn", "dead"}
  \/ CallStop
  \/ CallForceCleanup
  \/ start_recording_check("idle")
  \/ start_recording_spawn("idle")
  \/ stop_recording_check("idle")
  \/ stop_recording_join
  \/ stop_recording_force_cleanup
  \/ stop_recording_drain
  \/ stop_recording_return("idle")
  \/ \E t \in Threads : CaptureThreadCounted(t)

\* a capture thread is a daemon thread of the interpreter: once it is in
\* the piped loop the scheduler lets it take its next step
SpecPiped ==
  /\ InitRecorder
  /\ [][NextPiped]_vars
  /\ \A t \in Threads :
       /\ WF_vars(record_with_pulseaudio_loop(t))
       /\ WF_vars(record_with_pulseaudio_poll(t))
       /\ WF_vars(record_with_pulseaudio_put(t))

\* --------------------------------- RecordingThread and WhisperKeyApp
\* The session thread is the caller of the recorder: cpc is "idle" while
\* the QThread is not running (isRunning() is false).
isRunning == cpc # "idle"

Min(a, b) == IF a < b THEN a ELSE b

\* RecordingThread.run, line 54-56: self.start_time = time.time()
run_begin ==
  /\ cpc = "r_begin"
  /\ since_start' = 0
  /\ cpc' = "r_reset"
  /\ UNCHANGED <<recVars, thrVars, audio_chunks, forced, audio_data,
                 should_stop, stop_early, apc, wait_elapsed, trVars, extVars>>

\* line 59: self.should_stop = False
run_reset ==
  /\ cpc = "r_reset"
  /\ should_stop' = FALSE
  /\ stop_early' = FALSE
  /\ cpc' = "start_check"
  /\ UNCHANGED <<recVars, thrVars, audio_chunks, forced, audio_data,
                 since_start, apc, wait_elapsed, trVars, extVars>>

\* the polling loop without the minimum recording time
run_loop_condition_no_floor ==
  is_recording /\ ~should_stop

\* line 69: the condition of the polling loop
run_loop_condition ==
  is_recording /\ (~should_stop \/ since_start < min_recording_time)

\* line 69-82: the loop is left, AudioRecorder.stop_recording is called
run_loop_exit ==
  /\ cpc = "r_loop"
  /\ ~run_loop_condition
  /\ cpc' = "stop_check"
  /\ UNCHANGED <<recVars, thrVars, audio_chunks, forced, audio_data, sesVars,
                 trVars, extVars>>

\* line 85: self.recording_finished.emit(audio_data, self.start_time)
run_emit ==
  /\ cpc = "r_emit"
  /\ audio_data' = Null
  /\ cpc' = "idle"
  /\ UNCHANGED <<recVars, thrVars, audio_chunks, forced,
                 should_stop, stop_early, since_start, apc, wait_elapsed, trVars, extVars>>

\* RecordingThread.stop_recording (main.py:87-97)
RecordingThread_stop_recording ==
  /\ should_stop' = TRUE
  /\ stop_early' = (since_start < min_recording_time)

\* WhisperKeyApp.start_recording (main.py:320-353), when no session runs:
\* self.recording_thread.start()
WhisperKeyApp_start_recording ==
  /\ apc = "idle"
  /\ ~isRunning
  /\ \E t \in Threads : tpc[t] = "unborn"
  /\ cpc' = "r_begin"
  /\ UNCHANGED <<recVars, thrVars, audio_chunks, forced, audio_data, sesVars,
                 trVars, extVars>>

\* WhisperKeyApp.stop_recording, line 357-371: the request, then wait(2000)
WhisperKeyApp_stop_recording ==
  /\ apc = "idle"
  /\ isRunning
  /\ RecordingThread_stop_recording
  /\ apc' = "stop_wait"
  /\ wait_elapsed' = 0
  /\ UNCHANGED <<recVars, thrVars, cliVars, since_start, trVars, lpVars,
                 dmVars, appVars, ctxVars, pasteVars, cfgVars>>

\* line 371-372 and 379-390: the session thread finished within the wait
WhisperKeyApp_stop_wait_finished ==
  /\ apc = "stop_wait"
  /\ ~isRunning
  /\ apc' = "idle"
  /\ wait_elapsed' = 0
  /\ UNCHANGED <<recVars, thrVars, cliVars, should_stop, stop_early, since_start, trVars, extVars>>

\* line 373-377 and 379-390: it did not: recorder.force_cleanup()
WhisperKeyApp_stop_wait_timeout ==
  /\ apc = "stop_wait"
  /\ isRunning
  /\ wait_elapsed >= thread_wait_ms
  /\ force_cleanup
  /\ apc' = "idle"
  /\ wait_elapsed' = 0
  /\ UNCHANGED <<audio_queue, recording_thread, tpc, nchunks, no_data_count,
                 cliVars, should_stop, stop_early, since_start, trVars, extVars>>

\* time passes: the two durations the code compares with grow
Tick ==
  /\ \/ since_start < min_recording_time
     \/ apc = "stop_wait" /\ wait_elapsed < thread_wait_ms
  /\ since_start' = Min(since_start + TickMs, min_recording_time)
  /\ wait_elapsed' = IF apc = "stop_wait"
                       THEN Min(wait_elapsed + TickMs, thread_wait_ms)
                       ELSE wait_elapsed
  /\ UNCHANGED <<recVars, thrVars, cliVars, should_stop, stop_early, apc, trVars, extVars>>

InitSession == RecInit /\ SesInit /\ TrInit /\ ExtInit /\ llm_enabled = FALSE

NextSession ==
  \/ WhisperKeyApp_start_recording
  \/ WhisperKeyApp_stop_recording /\ UNCHANGED hkVars
  \/ WhisperKeyApp_stop_wait_finished
  \/ WhisperKeyApp_stop_wait_timeout
  \/ Tick
  \/ run_begin
  \/ run_reset
  \/ start_recording_check("r_loop")
  \/ start_recording_force_cleanup
  \/ start_recording_spawn("r_loop")
  \/ run_loop_exit
  \/ stop_recording_check("r_emit")
  \/ stop_recording_join
  \/ stop_recording_force_cleanup
  \/ stop_recording_drain
  \/ stop_recording_return("r_emit")
  \/ run_emit
  \/ \E t \in Threads : CaptureThread(t)

SpecSession == InitSession /\ [][NextSession]_vars

\* ------------------------------ WhisperKeyApp's handlers, step by step
\* WhisperKeyApp.start_recording, line 322-333: no session runs;
\* audio_device_manager.start_recording_audio_switch() has returned
WhisperKeyApp_start_switch ==
  /\ apc = "idle"
  /\ ~isRunning
  /\ \E t \in Threads : tpc[t] = "unborn"
  /\ devices' = "dictation"
  /\ stop_sound' = FALSE
  /\ app_forced' = FALSE
  /\ apc' = "start_thread"
  /\ UNCHANGED <<recVars, thrVars, cliVars, should_stop, stop_early, since_start,
                 wait_elapsed, trVars, lpVars, dmVars, ctxVars,
                 pasteVars, cfgVars>>

\* line 343-353: self.recording_thread.start(), the start sound, the tray
WhisperKeyApp_start_thread ==
  /\ apc = "start_thread"
  /\ cpc' = "r_begin"
  /\ apc' = "idle"
  /\ UNCHANGED <<recVars, thrVars, audio_chunks, forced, audio_data,
                 should_stop, stop_early, since_start, wait_elapsed, trVars, extVars>>

\* line 371-372: wait(2000) returned true, the session thread has finished
WhisperKeyApp_wait_finished ==
  /\ apc = "stop_wait"
  /\ ~isRunning
  /\ apc' = "stop_sound"
  /\ wait_elapsed' = 0
  /\ UNCHANGED <<recVars, thrVars, cliVars, should_stop, stop_early, since_start, trVars,
                 extVars>>

\* line 373-377: wait(2000) gave up: recorder.force_cleanup()
WhisperKeyApp_wait_timeout ==
  /\ apc = "stop_wait"
  /\ isRunning
  /\ wait_elapsed >= thread_wait_ms
  /\ force_cleanup
  /\ app_forced' = TRUE
  /\ apc' = "stop_sound"
  /\ wait_elapsed' = 0
  /\ UNCHANGED <<audio_queue, recording_thread, tpc, nchunks, no_data_count,
                 cliVars, should_stop, stop_early, since_start, trVars, lpVars, dmVars,
                 ctxVars, hkVars, pasteVars, cfgVars, devices,
                 stop_sound>>

\* line 379-381: self.sound_fx.play_stop()
WhisperKeyApp_play_stop ==
  /\ apc = "stop_sound"
  /\ stop_sound' = TRUE
  /\ apc' = "stop_switch"
  /\ UNCHANGED <<recVars, thrVars, cliVars, should_stop, stop_early, since_start,
                 wait_elapsed, trVars, lpVars, dmVars, ctxVars, hkVars, pasteVars, cfgVars, devices,
                 app_forced>>

\* line 383-390: audio_device_manager.stop_recording_audio_switch(), the UI
WhisperKeyApp_stop_switch ==
  /\ apc = "stop_switch"
  /\ devices' = "normal"
  /\ apc' = "idle"
  /\ UNCHANGED <<recVars, thrVars, cliVars, should_stop, stop_early, since_start,
                 wait_elapsed, trVars, lpVars, dmVars, ctxVars, hkVars, pasteVars, cfgVars, stop_sound,
                 app_forced>>

NextApp ==
  \/ WhisperKeyApp_start_switch /\ UNCHANGED hkVars
  \/ WhisperKeyApp_start_thread
  \/ WhisperKeyApp_stop_recording /\ UNCHANGED hkVars
  \/ WhisperKeyApp_wait_finished
  \/ WhisperKeyApp_wait_timeout
  \/ WhisperKeyApp_play_stop
  \/ WhisperKeyApp_stop_switch
  \/ Tick
  \/ run_begin
  \/ run_reset
  \/ start_recording_check("r_loop")
  \/ start_recording_force_cleanup
  \/ start_recording_spawn("r_loop")
  \/ run_loop_exit
  \/ stop_recording_check("r_emit")
  \/ stop_recording_join
  \/ stop_recording_force_cleanup
  \/ stop_recording_drain
  \/ stop_recording_return("r_emit")
  \/ run_emit
  \/ \E t \in Threads : CaptureThread(t)

SpecApp == InitSession /\ [][NextApp]_vars

\* ---------------------------- StreamingTranscriber and LLMProcessor
\* the text of a signal: the engine's text for a request, the cleaned text
\* of a request, or a fixed message
RawText(r) == <<"raw", r>>
CleanedText(r) == <<"cleaned", r>>
NoText == <<"none", 0>>
NoSpeechDetected == <<"No speech detected", 0>>
TranscriberNotInitialized == <<"Transcriber not initialized", 0>>
ExceptionText == <<"str(e)", 0>>
BothFailed == <<"Both transcription and LLM processing failed", 0>>

\* a signal that was emitted: its name, the request on whose behalf the
\* emitting code ran, and the text it carries
Signal(name, r, text) == <<name, r, text>>
\* final_result_with_context also carries the context type
SignalCtx(name, r, text, context_type) == <<name, r, text, context_type>>
\* the context type _clean_dictated_text_with_context returns for a text
\* (llm_processor.py:265-268); which one is of no concern to the transcriber
DetectedContext == "detected"

\* self.fallback_transcriber is not None: _initialize_transcriber
\* (streaming_transcriber.py:66-70) always installs one
fallback_transcriber == TRUE

\* transcribe_streaming without its is_transcribing guard
transcribe_streaming_unguarded ==
  /\ nreq < MaxRequests
  /\ nreq' = nreq + 1
  /\ is_transcribing' = TRUE
  /\ events' = Append(events, Signal("transcription_started", nreq + 1, NoText))
  /\ wpc' = [wpc EXCEPT ![nreq + 1] = "start"]
  /\ UNCHANGED <<raw_transcription, llm_enabled, stt_result, llm, active>>
  /\ UNCHANGED <<recVars, thrVars, cliVars, sesVars, extVars>>

\* transcribe_streaming (streaming_transcriber.py:91-118), called on the
\* event thread (main.py:402): rejected while is_transcribing, else the flag
\* is set, transcription_started is emitted and the worker thread started
\* (prefer_streaming is false, line 15 and 49)
transcribe_streaming ==
  /\ nreq < MaxRequests
  /\ nreq' = nreq + 1
  /\ IF is_transcribing
       THEN /\ wpc' = [wpc EXCEPT ![nreq + 1] = "rejected"]
            /\ UNCHANGED <<is_transcribing, events>>
       ELSE /\ is_transcribing' = TRUE
            /\ events' = Append(events,
                 Signal("transcription_started", nreq + 1, NoText))
            /\ wpc' = [wpc EXCEPT ![nreq + 1] = "start"]
  /\ UNCHANGED <<raw_transcription, llm_enabled, stt_result, llm, active>>
  /\ UNCHANGED <<recVars, thrVars, cliVars, sesVars, extVars>>

\* _batch_transcribe_worker, line 199-203: the working indicator
_batch_transcribe_worker_begin(r) ==
  /\ wpc[r] = "start"
  /\ events' = Append(events, Signal("partial_result", r, NoText))
  /\ wpc' = [wpc EXCEPT ![r] = "transcribe"]
  /\ UNCHANGED <<is_transcribing, raw_transcription, llm_enabled, nreq,
                 stt_result, llm, active>>
  /\ UNCHANGED <<recVars, thrVars, cliVars, sesVars, extVars>>

\* LLMProcessor.process_text_async_with_context (llm_processor.py:122-163),
\* as called at line 217 of the worker: what it emits and the job it leaves
process_text_async_with_context_signals(r) ==
  IF ~llm_enabled
    THEN <<SignalCtx("final_result_with_context", r, RawText(r), "unknown"),
           Signal("llm_processing_finished", r, RawText(r))>>
    ELSE <<Signal("llm_processing_started", r, NoText)>>

process_text_async_with_context_job ==
  IF ~llm_enabled THEN "none" ELSE "running"

\* what fallback_transcriber.transcribe() can give (line 207): a text with
\* words in it, a text of white space only, an empty text, an exception
EngineResults == {"speech", "blank", "empty", "raised"}

\* line 209 as `if text`: a text of white space counts as speech
has_speech_no_strip(text) == text # "empty"

\* line 209: `if text and text.strip()`
has_speech(text) == text # "empty" /\ text # "blank"

\* line 205-229 for one result of the engine: the signals emitted, and
\* whether the text was stored and handed to the cleanup
worker_signals(r, text) ==
  IF text = "raised"
    THEN <<Signal("error_occurred", r, ExceptionText)>>
    ELSE IF has_speech(text)
      THEN IF llm_enabled
             THEN process_text_async_with_context_signals(r)
             ELSE <<SignalCtx("final_result_with_context", r, RawText(r),
                              "unknown")>>
      ELSE <<Signal("error_occurred", r, NoSpeechDetected)>>

worker_stores_text(text) == text # "raised" /\ has_speech(text)

\* _batch_transcribe_worker with transcription_finished emitted at the end
\* of the try block instead of in the finally block
_batch_transcribe_worker_transcribe_no_finally(r) ==
  /\ wpc[r] = "transcribe"
  /\ \E text \in EngineResults :
       /\ stt_result' = [stt_result EXCEPT ![r] = text]
       /\ events' = events \o worker_signals(r, text)
       /\ raw_transcription' =
            IF worker_stores_text(text) THEN r ELSE raw_transcription
       /\ llm' = IF worker_stores_text(text) /\ llm_enabled
                   THEN [llm EXCEPT ![r] = process_text_async_with_context_job]
                   ELSE llm
       /\ active' = IF worker_stores_text(text) /\ llm_enabled
                      THEN active \cup {r} ELSE active
       /\ IF text = "raised"
            THEN /\ is_transcribing' = FALSE
                 /\ wpc' = [wpc EXCEPT ![r] = "done"]
            ELSE /\ UNCHANGED is_transcribing
                 /\ wpc' = [wpc EXCEPT ![r] = "finally"]
  /\ UNCHANGED <<llm_enabled, nreq>>
  /\ UNCHANGED <<recVars, thrVars, cliVars, sesVars, extVars>>

\* line 205-229: the engine's transcribe() and what follows it.  A text and
\* cleanup enabled: the text is stored and the cleanup job started (the
\* call returns at once); a text and no cleanup: the final result is
\* emitted; an empty text: "No speech detected"; transcribe() raised: the
\* error is emitted
_batch_transcribe_worker_transcribe(r) ==
  /\ wpc[r] = "transcribe"
  /\ IF ~fallback_transcriber
       THEN /\ events' = Append(events,
                 Signal("error_occurred", r, TranscriberNotInitialized))
            /\ UNCHANGED <<raw_transcription, stt_result, llm, active>>
       ELSE \E text \in EngineResults :
              /\ stt_result' = [stt_result EXCEPT ![r] = text]
              /\ events' = events \o worker_signals(r, text)
              /\ raw_transcription' =
                   IF worker_stores_text(text) THEN r ELSE raw_transcription
              /\ llm' = IF worker_stores_text(text) /\ llm_enabled
                          THEN [llm EXCEPT ![r] =
                                  process_text_async_with_context_job]
                          ELSE llm
              /\ active' = IF worker_stores_text(text) /\ llm_enabled
                             THEN active \cup {r} ELSE active
  /\ wpc' = [wpc EXCEPT ![r] = "finally"]
  /\ UNCHANGED <<is_transcribing, llm_enabled, nreq>>
  /\ UNCHANGED <<recVars, thrVars, cliVars, sesVars, extVars>>

\* line 230-231: finally: self.is_transcribing = False
_batch_transcribe_worker_finally_clear(r) ==
  /\ wpc[r] = "finally"
  /\ is_transcribing' = FALSE
  /\ wpc' = [wpc EXCEPT ![r] = "emit"]
  /\ UNCHANGED <<raw_transcription, llm_enabled, nreq, stt_result, llm, active,
                 events>>
  /\ UNCHANGED <<recVars, thrVars, cliVars, sesVars, extVars>>

\* line 232: self.transcription_finished.emit(), and the thread ends
_batch_transcribe_worker_finally_emit(r) ==
  /\ wpc[r] = "emit"
  /\ events' = Append(events, Signal("transcription_finished", r, NoText))
  /\ wpc' = [wpc EXCEPT ![r] = "done"]
  /\ UNCHANGED <<is_transcribing, raw_transcription, llm_enabled, nreq,
                 stt_result, llm, active>>
  /\ UNCHANGED <<recVars, thrVars, cliVars, sesVars, extVars>>

\* LLMWorkerWithContext.process (llm_processor.py:511-525) in the job's
\* thread: finished_with_context or failed is emitted, which queues the
\* processor's handler on the event thread and runs the job's cleanup
\* closure (line 149-160)
LLMWorkerWithContext_process(r) ==
  /\ llm[r] = "running"
  /\ \E outcome \in {"finished", "failed"} :
       llm' = [llm EXCEPT ![r] = outcome]
  /\ active' = active \ {r}
  /\ UNCHANGED <<is_transcribing, raw_transcription, llm_enabled, nreq, wpc,
                 stt_result, events>>
  /\ UNCHANGED <<recVars, thrVars, cliVars, sesVars, extVars>>

\* _on_context_finished (llm_processor.py:165-167) and
\* _on_llm_finished_with_context (streaming_transcriber.py:241-246), on the
\* event thread
_on_llm_finished_with_context(r) ==
  /\ llm[r] = "finished"
  /\ events' = events \o
       <<SignalCtx("final_result_with_context", r, CleanedText(r),
                   DetectedContext),
         Signal("llm_processing_finished", r, CleanedText(r))>>
  /\ llm' = [llm EXCEPT ![r] = "handled"]
  /\ UNCHANGED <<is_transcribing, raw_transcription, llm_enabled, nreq, wpc,
                 stt_result, active>>
  /\ UNCHANGED <<recVars, thrVars, cliVars, sesVars, extVars>>

\* _on_llm_failed without its fallback: the failure is reported as an error
_on_llm_failed_error_only(r) ==
  /\ llm[r] = "failed"
  /\ events' = Append(events, Signal("error_occurred", r, BothFailed))
  /\ llm' = [llm EXCEPT ![r] = "handled"]
  /\ UNCHANGED <<is_transcribing, raw_transcription, llm_enabled, nreq, wpc,
                 stt_result, active>>
  /\ UNCHANGED <<recVars, thrVars, cliVars, sesVars, extVars>>

\* _on_context_failed (llm_processor.py:169-171) and _on_llm_failed
\* (streaming_transcriber.py:248-255), on the event thread
_on_llm_failed(r) ==
  /\ llm[r] = "failed"
  /\ events' = Append(events,
       IF raw_transcription # NoRef
         THEN SignalCtx("final_result_with_context", r,
                        RawText(raw_transcription), "unknown")
         ELSE Signal("error_occurred", r, BothFailed))
  /\ llm' = [llm EXCEPT ![r] = "handled"]
  /\ UNCHANGED <<is_transcribing, raw_transcription, llm_enabled, nreq, wpc,
                 stt_result, active>>
  /\ UNCHANGED <<recVars, thrVars, cliVars, sesVars, extVars>>

InitTranscriber ==
  /\ RecInit
  /\ SesInit
  /\ TrInit
  /\ ExtInit
  /\ llm_enabled \in BOOLEAN

NextTranscriber ==
  \/ transcribe_streaming
  \/ \E r \in Requests :
       \/ _batch_transcribe_worker_begin(r)
       \/ _batch_transcribe_worker_transcribe(r)
       \/ _batch_transcribe_worker_finally_clear(r)
       \/ _batch_transcribe_worker_finally_emit(r)
       \/ LLMWorkerWithContext_process(r)
       \/ _on_llm_finished_with_context(r)
       \/ _on_llm_failed(r)

SpecTranscriber == InitTranscriber /\ [][NextTranscriber]_vars

\* the same with its scheduling: a started thread runs to its end, the
\* request to the provider returns or times out (timeout=15,
\* llm_processor.py:252 and 299), and the event loop delivers every queued
\* signal
SpecTranscriberLive ==
  /\ SpecTranscriber
  /\ \A r \in Requests :
       /\ WF_vars(_batch_transcribe_worker_begin(r))
       /\ WF_vars(_batch_transcribe_worker_transcribe(r))
       /\ WF_vars(_batch_transcribe_worker_finally_clear(r))
       /\ WF_vars(_batch_transcribe_worker_finally_emit(r))
       /\ WF_vars(LLMWorkerWithContext_process(r))
       /\ WF_vars(_on_llm_finished_with_context(r))
       /\ WF_vars(_on_llm_failed(r))

\* ------------------------------------------------ LLMProcessor on its own
\* remove the first occurrence of x (list.remove)
RECURSIVE Remove(_, _)
Remove(list, x) ==
  IF list = <<>> THEN <<>>
  ELSE IF Head(list) = x THEN Tail(list)
  ELSE <<Head(list)>> \o Remove(Tail(list), x)

In(x, list) == \E i \in 1..Len(list) : list[i] = x

\* the finished signal of an entry point for a text (line 75 and 126)
FinishedSignal(kind, j, text, context_type) ==
  IF kind = "context"
    THEN <<"processing_finished_with_context", j, text, context_type>>
    ELSE <<"processing_finished", j, text>>

\* the disabled branch emitting an empty text instead of its input
process_text_async_disabled_text_dropped(raw_text) == ""

\* line 73-76 and 124-127: the text the disabled branch emits
process_text_async_disabled_text(raw_text) == raw_text

\* process_text_async (llm_processor.py:71-112) and
\* process_text_async_with_context (122-163), up to the creation of the
\* thread and the worker (line 79-81 and 130-132).  Disabled: the finished
\* signal with the input, and return.  job[j] keeps the arguments of call j.
process_text_async_begin(kind, raw_text) ==
  /\ ppc = "idle"
  /\ ncalls < MaxJobs
  /\ ncalls' = ncalls + 1
  /\ job' = [job EXCEPT ![ncalls + 1] =
       [kind |-> kind, raw_text |-> raw_text, call |-> "none", result |-> <<>>]]
  /\ IF ~llm_enabled
       THEN /\ psignals' = Append(psignals,
                 FinishedSignal(kind, ncalls + 1,
                   process_text_async_disabled_text(raw_text), "unknown"))
            /\ UNCHANGED <<ppc, jpc>>
       ELSE /\ jpc' = [jpc EXCEPT ![ncalls + 1] = "created"]
            /\ ppc' = "append_thread"
            /\ UNCHANGED psignals
  /\ UNCHANGED <<_active_threads, _active_workers, hq, provider_requests, kpc,
                 k_copy, nremoved, raised, released, terminated>>
  /\ UNCHANGED <<llm_enabled, notLpVars>>

\* line 89 and 140: self._active_threads.append(thread)
process_text_async_append_thread ==
  /\ ppc = "append_thread"
  /\ _active_threads' = Append(_active_threads, ncalls)
  /\ ppc' = "append_worker"
  /\ UNCHANGED <<_active_workers, ncalls, job, jpc, hq, psignals,
                 provider_requests, kpc, k_copy, nremoved, raised, released,
                 terminated>>
  /\ UNCHANGED <<llm_enabled, notLpVars>>

\* line 90 and 141: self._active_workers.append(worker)
process_text_async_append_worker ==
  /\ ppc = "append_worker"
  /\ _active_workers' = Append(_active_workers, ncalls)
  /\ ppc' = "start"
  /\ UNCHANGED <<_active_threads, ncalls, job, jpc, hq, psignals,
                 provider_requests, kpc, k_copy, nremoved, raised, released,
                 terminated>>
  /\ UNCHANGED <<llm_enabled, notLpVars>>

\* line 111-112 and 162-163: processing_started.emit(); thread.start()
process_text_async_start ==
  /\ ppc = "start"
  /\ psignals' = Append(psignals, <<"processing_started", ncalls, "">>)
  /\ jpc' = [jpc EXCEPT ![ncalls] = "process"]
  /\ ppc' = "idle"
  /\ UNCHANGED <<_active_threads, _active_workers, ncalls, job, hq,
                 provider_requests, kpc, k_copy, nremoved, raised, released,
                 terminated>>
  /\ UNCHANGED <<llm_enabled, notLpVars>>

\* process() without its try/except: an exception of the cleanup call
\* leaves the method, nothing is emitted
worker_process_emits_unguarded(call) ==
  IF call = "raised" THEN <<>> ELSE <<"finished">>

\* LLMWorker.process (llm_processor.py:486-495) and
\* LLMWorkerWithContext.process (516-525): the signals the worker emits when
\* the cleanup call has returned a text and when it has raised
worker_process_emits(call) ==
  IF call = "raised" THEN <<"failed">> ELSE <<"finished">>

\* LLMWorker.process (llm_processor.py:481-495) and
\* LLMWorkerWithContext.process (511-525) in the job's thread: the request
\* to the provider returns a text or raises (_clean_dictated_text re-raises,
\* line 262-264 and 303-305), then the worker emits; the emission queues the
\* processor's handler on the event thread and enters the cleanup closure
\* in this thread; with nothing emitted the thread ends
LLMWorker_process(j) ==
  /\ jpc[j] = "process"
  /\ provider_requests' = provider_requests \cup {j}
  /\ \E call \in {"returned", "raised"} :
       LET emitted == worker_process_emits(call) IN
         /\ job' = [job EXCEPT ![j].call = call, ![j].result = emitted]
         /\ hq' = [hq EXCEPT ![j] = IF emitted = <<>> THEN @ ELSE "queued"]
         /\ jpc' = [jpc EXCEPT ![j] = IF emitted = <<>> THEN "dead" ELSE "c_chk_t"]
  /\ UNCHANGED <<_active_threads, _active_workers, ncalls, ppc, psignals, kpc,
                 k_copy, nremoved, raised, released, terminated>>
  /\ UNCHANGED <<llm_enabled, notLpVars>>

\* the closure cleanup() of a job, line 99 and 150:
\* `if thread in self._active_threads`
cleanup_closure_check_thread(j) ==
  /\ jpc[j] = "c_chk_t"
  /\ jpc' = [jpc EXCEPT ![j] =
       IF In(j, _active_threads) THEN "c_rm_t" ELSE "c_chk_w"]
  /\ UNCHANGED <<_active_threads, _active_workers, ncalls, ppc, job, hq,
                 psignals, provider_requests, kpc, k_copy, nremoved, raised,
                 released, terminated>>
  /\ UNCHANGED <<llm_enabled, notLpVars>>

\* `self._active_threads.remove(thread)`; ValueError when it is not there
cleanup_closure_remove_thread(j) ==
  /\ jpc[j] = "c_rm_t"
  /\ IF In(j, _active_threads)
       THEN /\ _active_threads' = Remove(_active_threads, j)
            /\ nremoved' = [nremoved EXCEPT ![j].threads = @ + 1]
            /\ jpc' = [jpc EXCEPT ![j] = "c_chk_w"]
            /\ UNCHANGED raised
       ELSE /\ raised' = raised \cup {j}
            /\ jpc' = [jpc EXCEPT ![j] = "raised"]
            /\ UNCHANGED <<_active_threads, nremoved>>
  /\ UNCHANGED <<_active_workers, ncalls, ppc, job, hq, psignals,
                 provider_requests, kpc, k_copy, released, terminated>>
  /\ UNCHANGED <<llm_enabled, notLpVars>>

\* line 101 and 152: `if worker in self._active_workers`
cleanup_closure_check_worker(j) ==
  /\ jpc[j] = "c_chk_w"
  /\ jpc' = [jpc EXCEPT ![j] =
       IF In(j, _active_workers) THEN "c_rm_w" ELSE "c_release"]
  /\ UNCHANGED <<_active_threads, _active_workers, ncalls, ppc, job, hq,
                 psignals, provider_requests, kpc, k_copy, nremoved, raised,
                 released, terminated>>
  /\ UNCHANGED <<llm_enabled, notLpVars>>

\* `self._active_workers.remove(worker)`
cleanup_closure_remove_worker(j) ==
  /\ jpc[j] = "c_rm_w"
  /\ IF In(j, _active_workers)
       THEN /\ _active_workers' = Remove(_active_workers, j)
            /\ nremoved' = [nremoved EXCEPT ![j].workers = @ + 1]
            /\ jpc' = [jpc EXCEPT ![j] = "c_release"]
            /\ UNCHANGED raised
       ELSE /\ raised' = raised \cup {j}
            /\ jpc' = [jpc EXCEPT ![j] = "raised"]
            /\ UNCHANGED <<_active_workers, nremoved>>
  /\ UNCHANGED <<_active_threads, ncalls, ppc, job, hq, psignals,
                 provider_requests, kpc, k_copy, released, terminated>>
  /\ UNCHANGED <<llm_enabled, notLpVars>>

\* line 103-106 and 154-157: thread.quit(), thread.wait(2000) (on itself:
\* returns at once), worker.deleteLater(), thread.deleteLater()
cleanup_closure_release(j) ==
  /\ jpc[j] = "c_release"
  /\ released' = released \cup {j}
  /\ jpc' = [jpc EXCEPT ![j] = "done"]
  /\ UNCHANGED <<_active_threads, _active_workers, ncalls, ppc, job, hq,
                 psignals, provider_requests, kpc, k_copy, nremoved, raised,
                 terminated>>
  /\ UNCHANGED <<llm_enabled, notLpVars>>

\* a thread that got terminate() ends wherever it is
terminated_thread_ends(j) ==
  /\ j \in terminated
  /\ jpc[j] \notin {"done", "raised", "dead"}
  /\ jpc' = [jpc EXCEPT ![j] = "dead"]
  /\ UNCHANGED <<_active_threads, _active_workers, ncalls, ppc, job, hq,
                 psignals, provider_requests, kpc, k_copy, nremoved, raised,
                 released, terminated>>
  /\ UNCHANGED <<llm_enabled, notLpVars>>

\* _on_regular_finished / _on_regular_failed (114-120) and
\* _on_context_finished / _on_context_failed (165-171), on the event thread
on_worker_signal(j) ==
  /\ hq[j] = "queued"
  /\ kpc \in {"idle", "done"}
  /\ psignals' = Append(psignals,
       IF job[j].result = <<"failed">>
         THEN <<"processing_failed", j, "LLM processing failed: {e}">>
         ELSE FinishedSignal(job[j].kind, j, <<"cleaned", job[j].raw_text>>,
                             DetectedContext))
  /\ hq' = [hq EXCEPT ![j] = "handled"]
  /\ UNCHANGED <<_active_threads, _active_workers, ncalls, ppc, job, jpc,
                 provider_requests, kpc, k_copy, nremoved, raised, released,
                 terminated>>
  /\ UNCHANGED <<llm_enabled, notLpVars>>

\* QThread.isRunning()
thread_isRunning(j) == jpc[j] \notin {"none", "created", "done", "dead"}

\* LLMProcessor.cleanup (llm_processor.py:51-65), on the event thread.
\* line 54: the copy of the registry the loop walks
LLMProcessor_cleanup_begin ==
  /\ kpc = "idle"
  /\ k_copy' = _active_threads
  /\ kpc' = "loop"
  /\ UNCHANGED <<_active_threads, _active_workers, ncalls, ppc, job, jpc, hq,
                 psignals, provider_requests, nremoved, raised, released,
                 terminated>>
  /\ UNCHANGED <<llm_enabled, notLpVars>>

\* line 54-59, one thread of the copy: not running, skipped; running, it
\* gets quit() and wait(3000), which returns when the thread has ended or
\* gives up on a thread that is still waiting for the provider, and that
\* one gets terminate()
LLMProcessor_cleanup_loop ==
  /\ kpc = "loop"
  /\ k_copy # <<>>
  /\ LET t == Head(k_copy) IN
       \/ /\ ~thread_isRunning(t)
          /\ UNCHANGED terminated
       \/ /\ jpc[t] = "raised"
          /\ UNCHANGED terminated
       \/ /\ jpc[t] = "process"
          /\ terminated' = terminated \cup {t}
  /\ k_copy' = Tail(k_copy)
  /\ UNCHANGED <<_active_threads, _active_workers, ncalls, ppc, job, jpc, hq,
                 psignals, provider_requests, kpc, nremoved, raised, released>>
  /\ UNCHANGED <<llm_enabled, notLpVars>>

\* line 61-62: worker.deleteLater() for every worker of the registry
LLMProcessor_cleanup_release ==
  /\ kpc = "loop"
  /\ k_copy = <<>>
  /\ released' = released \cup {_active_workers[i] : i \in 1..Len(_active_workers)}
  /\ kpc' = "clear_threads"
  /\ UNCHANGED <<_active_threads, _active_workers, ncalls, ppc, job, jpc, hq,
                 psignals, provider_requests, k_copy, nremoved, raised,
                 terminated>>
  /\ UNCHANGED <<llm_enabled, notLpVars>>

\* line 64: self._active_threads.clear()
LLMProcessor_cleanup_clear_threads ==
  /\ kpc = "clear_threads"
  /\ _active_threads' = <<>>
  /\ nremoved' = [j \in Jobs |->
       IF In(j, _active_threads)
         THEN [nremoved[j] EXCEPT !.threads = @ + 1] ELSE nremoved[j]]
  /\ kpc' = "clear_workers"
  /\ UNCHANGED <<_active_workers, ncalls, ppc, job, jpc, hq, psignals,
                 provider_requests, k_copy, raised, released, terminated>>
  /\ UNCHANGED <<llm_enabled, notLpVars>>

\* line 65: self._active_workers.clear()
LLMProcessor_cleanup_clear_workers ==
  /\ kpc = "clear_workers"
  /\ _active_workers' = <<>>
  /\ nremoved' = [j \in Jobs |->
       IF In(j, _active_workers)
         THEN [nremoved[j] EXCEPT !.workers = @ + 1] ELSE nremoved[j]]
  /\ kpc' = "done"
  /\ UNCHANGED <<_active_threads, ncalls, ppc, job, jpc, hq, psignals,
                 provider_requests, k_copy, raised, released, terminated>>
  /\ UNCHANGED <<llm_enabled, notLpVars>>

InitProcessor ==
  /\ RecInit
  /\ SesInit
  /\ TrInit
  /\ ExtInit
  /\ llm_enabled \in BOOLEAN

NextProcessor ==
  \/ \E kind \in {"plain", "context"}, raw_text \in {"hello", "hello world"} :
       process_text_async_begin(kind, raw_text)
  \/ process_text_async_append_thread
  \/ process_text_async_append_worker
  \/ process_text_async_start
  \/ \E j \in Jobs :
       \/ LLMWorker_process(j)
       \/ cleanup_closure_check_thread(j)
       \/ cleanup_closure_remove_thread(j)
       \/ cleanup_closure_check_worker(j)
       \/ cleanup_closure_remove_worker(j)
       \/ cleanup_closure_release(j)
       \/ terminated_thread_ends(j)
       \/ on_worker_signal(j)
  \/ LLMProcessor_cleanup_begin
  \/ LLMProcessor_cleanup_loop
  \/ LLMProcessor_cleanup_release
  \/ LLMProcessor_cleanup_clear_threads
  \/ LLMProcessor_cleanup_clear_workers

SpecProcessor == InitProcessor /\ [][NextProcessor]_vars

\* ------------------------------------------- AudioDeviceManager on its own
HeadsetProfiles == {"headset-head-unit-msbc", "headset-head-unit-cvsd",
                    "headset-head-unit"}
A2dpProfiles == {"a2dp-sink", "a2dp-sink-sbc_xq"}

\* which external commands of a switch fail: the set-default-source, the
\* set-default-sink, the step of the headset sequence that fails (0: none)
\* and the plain set-card-profile
NoFailure == [source_ok |-> TRUE, sink_ok |-> TRUE, bt_fail |-> 0,
              profile_ok |-> TRUE]
Failures ==
  { NoFailure,
    [NoFailure EXCEPT !.source_ok = FALSE],
    [NoFailure EXCEPT !.sink_ok = FALSE],
    [NoFailure EXCEPT !.profile_ok = FALSE],
    [source_ok |-> FALSE, sink_ok |-> FALSE, bt_fail |-> 1,
     profile_ok |-> FALSE] }
    \cup { [NoFailure EXCEPT !.bt_fail = k] : k \in 1..3 }

\* Python truthiness of a device name
Truthy(name) == name # None /\ name # Empty

\* the sound server and the command log as a switch goes along, with what
\* the calls of _switch_bluetooth_card_to_headset returned
Sys0 == [src |-> default_source, snk |-> default_sink, prof |-> card_profile,
         cmds |-> <<>>, ret |-> <<>>]

\* subprocess.run(['pactl', 'set-card-profile', card, profile])
run_set_card_profile(S, card, profile, succeeds) ==
  [S EXCEPT !.cmds = Append(@, <<"set-card-profile", card, profile>>),
            !.prof = IF succeeds /\ card \in Cards
                       THEN [@ EXCEPT ![card] = profile] ELSE @]

\* the sequence without its early returns: every step is issued
_switch_bluetooth_card_to_headset_all_steps(S, card, bt_fail) ==
  LET S1 == run_set_card_profile(S, card, "headset-head-unit-msbc", bt_fail # 1)
      S2 == run_set_card_profile(S1, card, "off", bt_fail # 2)
      S3 == run_set_card_profile(S2, card, "headset-head-unit-msbc", bt_fail # 3)
  IN [S3 EXCEPT !.ret = Append(@, <<card, bt_fail = 0>>)]
\* _switch_bluetooth_card_to_headset (audio_device_manager.py:781-827):
\* headset, off, headset; a failing step (non-zero exit, or an exception
\* caught at line 825-827) ends the sequence with False, the third step
\* succeeding ends it with True
_switch_bluetooth_card_to_headset(S, card, bt_fail) ==
  LET S1 == run_set_card_profile(S, card, "headset-head-unit-msbc", bt_fail # 1)
      S2 == run_set_card_profile(S1, card, "off", bt_fail # 2)
      S3 == run_set_card_profile(S2, card, "headset-head-unit-msbc", bt_fail # 3)
  IN IF bt_fail = 1 THEN [S1 EXCEPT !.ret = Append(@, <<card, FALSE>>)]
     ELSE IF bt_fail = 2 THEN [S2 EXCEPT !.ret = Append(@, <<card, FALSE>>)]
     ELSE IF bt_fail = 3 THEN [S3 EXCEPT !.ret = Append(@, <<card, FALSE>>)]
     ELSE [S3 EXCEPT !.ret = Append(@, <<card, TRUE>>)]

\* set_default_source (340-369)
set_default_source(S, name, f) ==
  LET hfp == name[1] = "bt_hfp"
      S1 == IF hfp THEN _switch_bluetooth_card_to_headset(S, name[2], f.bt_fail)
            ELSE S
      device_name == IF hfp THEN <<"bluez", name[2]>> ELSE name
  IN IF audio_system = "pulseaudio"
         \/ (audio_system = "pipewire" /\ device_name[1] = "index")
       THEN [S1 EXCEPT !.cmds = Append(@, <<"set-default-source", device_name>>),
                       !.src = IF f.source_ok THEN device_name ELSE @]
       ELSE S1

\* set_default_sink (306-338)
set_default_sink(S, name, f) ==
  LET hfp == name[1] = "bt_hfp"
      S1 == IF hfp THEN _switch_bluetooth_card_to_headset(S, name[2], f.bt_fail)
            ELSE S
      device_name == IF hfp THEN <<"bluez", name[2]>> ELSE name
  IN IF audio_system = "pulseaudio"
         \/ (audio_system = "pipewire" /\ device_name[1] = "index")
       THEN [S1 EXCEPT !.cmds = Append(@, <<"set-default-sink", device_name>>),
                       !.snk = IF f.sink_ok THEN device_name ELSE @]
       ELSE S1

\* _get_bluetooth_card_info (609-681): the profiles found for a card
available_profiles(card) ==
  IF card_detect[card] = "all" THEN {"a2dp-sink", "headset-head-unit-msbc"}
  ELSE IF card_detect[card] = "a2dp_only" THEN {"a2dp-sink"}
  ELSE {}

\* line 747-751 and 896-900: the first profile of the list that is available
first_available(profiles, available) ==
  IF profiles = <<>> THEN "None"
  ELSE IF profiles[1] \in available THEN profiles[1]
  ELSE IF Len(profiles) > 1 /\ profiles[2] \in available THEN profiles[2]
  ELSE IF Len(profiles) > 2 /\ profiles[3] \in available THEN profiles[3]
  ELSE "None"

\* switch_bluetooth_to_headset_mode (707-779): the loop over the cards,
\* the first card of the list and then the others
RECURSIVE headset_mode_loop(_, _, _)
headset_mode_loop(S, cards, f) ==
  IF cards = <<>> THEN S
  ELSE
    LET card == Head(cards)
        current_profile == IF card_detect[card] = "short_only" THEN "unknown"
                           ELSE S.prof[card]
        available == available_profiles(card)
        target_profile == first_available(
          <<"headset-head-unit-msbc", "headset-head-unit-cvsd",
            "headset-head-unit">>, available)
        S1 == IF available = {} \/ current_profile = "a2dp-sink"
                THEN _switch_bluetooth_card_to_headset(S, card, f.bt_fail)
              ELSE IF target_profile # "None" /\ current_profile # target_profile
                THEN run_set_card_profile(S, card, target_profile, f.profile_ok)
              ELSE IF target_profile # "None"
                THEN S
              ELSE _switch_bluetooth_card_to_headset(S, card, f.bt_fail)
    IN headset_mode_loop(S1, Tail(cards), f)

\* switch_bluetooth_to_headset_mode (707-779): the cards of the full
\* listing and those only the short listing has
switch_bluetooth_to_headset_mode(S, f) ==
  IF ~bluetooth_switching_enabled THEN S
  ELSE headset_mode_loop(S, CardSeq, f)

\* switch_bluetooth_to_a2dp_mode (885-930): the loop over the cards of the
\* full listing, the first card of the list and then the others
RECURSIVE a2dp_mode_loop(_, _, _)
a2dp_mode_loop(S, cards, f) ==
  IF cards = <<>> THEN S
  ELSE
    LET card == Head(cards)
        current_profile == S.prof[card]
        target_profile == first_available(<<"a2dp-sink", "a2dp-sink-sbc_xq">>,
                                          available_profiles(card))
        S1 == run_set_card_profile(S, card, target_profile, f.profile_ok)
        S2 == IF card_detect[card] = "short_only" THEN S
              ELSE IF target_profile # "None" /\ current_profile # target_profile
                THEN IF f.profile_ok
                       THEN [S1 EXCEPT !.cmds =
                               Append(@, <<"set-sink-port", card,
                                           "headphone-output">>)]
                       ELSE S1
              ELSE S
    IN a2dp_mode_loop(S2, Tail(cards), f)

\* switch_bluetooth_to_a2dp_mode (885-930): the cards of the full listing
switch_bluetooth_to_a2dp_mode(S, f) ==
  IF ~bluetooth_switching_enabled THEN S
  ELSE a2dp_mode_loop(S, CardSeq, f)

\* start_recording_audio_switch_four_device (963-987)
start_recording_audio_switch_four_device(S, f) ==
  LET S1 == switch_bluetooth_to_headset_mode(S, f)
      S2 == IF Truthy(dictating_mic) THEN set_default_source(S1, dictating_mic, f)
            ELSE S1
  IN IF Truthy(dictating_output) THEN set_default_sink(S2, dictating_output, f)
     ELSE S2

\* stop_recording_audio_switch_four_device (989-1013)
stop_recording_audio_switch_four_device(S, f) ==
  LET S1 == IF Truthy(normal_mic) THEN set_default_source(S, normal_mic, f)
            ELSE S
      S2 == IF Truthy(normal_output) THEN set_default_sink(S1, normal_output, f)
            ELSE S1
  IN switch_bluetooth_to_a2dp_mode(S2, f)

\* which branch of start_recording_audio_switch (437-457) swaps devices
start_branch ==
  IF four_device_mode
    THEN IF switching_enabled THEN "four" ELSE "none"
  ELSE IF ~switching_enabled \/ ~Truthy(preferred_mic_device) THEN "none"
  ELSE "legacy"

\* which branch of stop_recording_audio_switch (459-480) swaps devices
stop_branch ==
  IF four_device_mode
    THEN IF switching_enabled THEN "four" ELSE "none"
  ELSE IF ~switching_enabled THEN "none"
  ELSE "legacy"

\* the history of a call that changes the configuration
ConfigurationChanged ==
  /\ last_call' = NoCall
  /\ cmds' = <<>>
  /\ headset_forced' = {}
  /\ before' = [source |-> default_source, sink |-> default_sink]

\* configure_preferred_devices (428-435)
configure_preferred_devices(mic_device, output_device) ==
  /\ preferred_mic_device' = mic_device
  /\ preferred_output_device' = output_device
  /\ switching_enabled' = TRUE
  /\ configured' = "legacy"
  /\ ConfigurationChanged
  /\ UNCHANGED <<audio_system, dictating_mic, dictating_output, normal_mic,
                 normal_output, four_device_mode, bluetooth_switching_enabled,
                 default_source, default_sink, card_profile, card_detect>>
  /\ UNCHANGED <<llm_enabled, notDmVars>>

\* configure_four_device_switching (949-961)
configure_four_device_switching(mic, output, nmic, noutput) ==
  /\ switching_enabled' = TRUE
  /\ four_device_mode' = TRUE
  /\ dictating_mic' = mic
  /\ dictating_output' = output
  /\ normal_mic' = nmic
  /\ normal_output' = noutput
  /\ configured' = "four"
  /\ ConfigurationChanged
  /\ UNCHANGED <<audio_system, preferred_mic_device, preferred_output_device,
                 bluetooth_switching_enabled, default_source, default_sink,
                 card_profile, card_detect>>
  /\ UNCHANGED <<llm_enabled, notDmVars>>

\* disable_switching (482-486)
disable_switching ==
  /\ switching_enabled' = FALSE
  /\ four_device_mode' = FALSE
  /\ ConfigurationChanged
  /\ UNCHANGED <<audio_system, preferred_mic_device, preferred_output_device,
                 dictating_mic, dictating_output, normal_mic, normal_output,
                 bluetooth_switching_enabled, default_source, default_sink,
                 card_profile, card_detect, configured>>
  /\ UNCHANGED <<llm_enabled, notDmVars>>

\* enable_switching (488-494)
enable_switching ==
  /\ switching_enabled' =
       IF Truthy(preferred_mic_device) /\ Truthy(preferred_output_device)
         THEN TRUE ELSE switching_enabled
  /\ ConfigurationChanged
  /\ UNCHANGED <<audio_system, preferred_mic_device, preferred_output_device,
                 dictating_mic, dictating_output, normal_mic, normal_output,
                 four_device_mode, bluetooth_switching_enabled, default_source,
                 default_sink, card_profile, card_detect, configured>>
  /\ UNCHANGED <<llm_enabled, notDmVars>>

\* enable_bluetooth_switching (697-700)
enable_bluetooth_switching ==
  /\ ~bluetooth_switching_enabled
  /\ bluetooth_switching_enabled' = TRUE
  /\ ConfigurationChanged
  /\ UNCHANGED <<audio_system, preferred_mic_device, preferred_output_device,
                 dictating_mic, dictating_output, normal_mic, normal_output,
                 switching_enabled, four_device_mode, default_source,
                 default_sink, card_profile, card_detect, configured>>
  /\ UNCHANGED <<llm_enabled, notDmVars>>

\* disable_bluetooth_switching (702-705)
disable_bluetooth_switching ==
  /\ bluetooth_switching_enabled
  /\ bluetooth_switching_enabled' = FALSE
  /\ ConfigurationChanged
  /\ UNCHANGED <<audio_system, preferred_mic_device, preferred_output_device,
                 dictating_mic, dictating_output, normal_mic, normal_output,
                 switching_enabled, four_device_mode, default_source,
                 default_sink, card_profile, card_detect, configured>>
  /\ UNCHANGED <<llm_enabled, notDmVars>>

\* the calls start_recording_audio_switch (437-457) makes, with the
\* commands failing as f says.  The legacy branch stores the current
\* defaults (original_*, only printed afterwards) and switches the source.
start_recording_audio_switch_calls(f) ==
  IF start_branch = "four"
    THEN start_recording_audio_switch_four_device(Sys0, f)
  ELSE IF start_branch = "legacy"
    THEN set_default_source(Sys0, preferred_mic_device, f)
  ELSE Sys0

\* the calls stop_recording_audio_switch (459-480) makes
stop_recording_audio_switch_calls(f) ==
  IF stop_branch = "four"
    THEN stop_recording_audio_switch_four_device(Sys0, f)
  ELSE IF stop_branch = "legacy" /\ Truthy(preferred_output_device)
    THEN set_default_sink(Sys0, preferred_output_device, f)
  ELSE Sys0

\* start_recording_audio_switch (437-457): what the call leaves of the
\* sound server and of the manager
AudioDeviceManager_start_recording_audio_switch(f) ==
  LET S == start_recording_audio_switch_calls(f)
  IN /\ default_source' = S.src
     /\ default_sink' = S.snk
     /\ card_profile' = S.prof
     /\ cmds' = S.cmds
     /\ last_call' = [op |-> "start", branch |-> start_branch,
                      ok |-> f = NoFailure, paired |-> FALSE]
     /\ headset_forced' =
          {c \in Cards : /\ S.prof[c] \in HeadsetProfiles
                         /\ \E i \in 1..Len(S.cmds) :
                              /\ S.cmds[i][1] = "set-card-profile"
                              /\ S.cmds[i][2] = c}
     /\ before' = [source |-> default_source, sink |-> default_sink]
     /\ UNCHANGED <<audio_system, preferred_mic_device, preferred_output_device,
                    dictating_mic, dictating_output, normal_mic, normal_output,
                    switching_enabled, four_device_mode,
                    bluetooth_switching_enabled, card_detect, configured>>

\* start_recording_audio_switch (437-457) called on the manager alone
start_recording_audio_switch(f) ==
  /\ AudioDeviceManager_start_recording_audio_switch(f)
  /\ UNCHANGED <<llm_enabled, notDmVars>>

\* stop_recording_audio_switch (459-480) with the commands failing as f says
stop_recording_audio_switch(f) ==
  LET S == stop_recording_audio_switch_calls(f)
  IN /\ default_source' = S.src
     /\ default_sink' = S.snk
     /\ card_profile' = S.prof
     /\ cmds' = S.cmds
     /\ last_call' = [op |-> "stop", branch |-> stop_branch,
                      ok |-> f = NoFailure,
                      paired |-> /\ last_call.op = "start"
                                 /\ last_call.branch = "four"
                                 /\ last_call.ok
                                 /\ stop_branch = "four"]
     /\ before' = [source |-> default_source, sink |-> default_sink]
     /\ UNCHANGED <<audio_system, preferred_mic_device, preferred_output_device,
                    dictating_mic, dictating_output, normal_mic, normal_output,
                    switching_enabled, four_device_mode,
                    bluetooth_switching_enabled, card_detect, configured,
                    headset_forced>>
     /\ UNCHANGED <<llm_enabled, notDmVars>>

\* a manager constructed on either sound system (or none detected), with
\* each card inspected in one of the ways
InitDevices ==
  /\ RecInit
  /\ SesInit
  /\ TrInit
  /\ LpInit
  /\ AppInit
  /\ CtxGiven("")
  /\ HkInit /\ PasteInit /\ CfgInit
  /\ llm_enabled = FALSE
  /\ \E system \in {"pulseaudio", "pipewire", "unknown"} :
       \* what the inspection of a card yields: "all": the full listing
       \* with an a2dp-sink and a headset-head-unit-msbc profile;
       \* "a2dp_only": the full listing with the a2dp-sink profile only;
       \* "none": the full listing with no profile detected; "short_only":
       \* the card is only in the short listing
       \E detect \in [Cards -> {"all", "a2dp_only", "none", "short_only"}] :
         DmConstructed(system, detect)

NextDevices ==
  \/ configure_preferred_devices(<<"index", "3">>, <<"index", "3">>)
  \* <<dictating_mic, dictating_output, normal_mic, normal_output>>
  \/ \E c \in
       { << <<"index", "1">>, <<"index", "1">>, <<"index", "2">>, <<"index", "2">> >>,
         << <<"bt_hfp", "c1">>, <<"bt_hfp", "c1">>, <<"index", "2">>, <<"index", "2">> >>,
         << Empty, <<"index", "1">>, <<"index", "2">>, Empty >>,
         << <<"index", "1">>, Empty, Empty, <<"index", "2">> >> } :
       configure_four_device_switching(c[1], c[2], c[3], c[4])
  \/ disable_switching
  \/ enable_switching
  \/ enable_bluetooth_switching
  \/ disable_bluetooth_switching
  \/ \E f \in Failures : start_recording_audio_switch(f)
  \/ \E f \in Failures : stop_recording_audio_switch(f)

SpecDevices == InitDevices /\ [][NextDevices]_vars

\* --------------------------------- the context of a dictated text
\* the limit of the length fallback (llm_processor.py:331)
long_text_words == 50

MaxSegments == 2

RECURSIVE Pad(_)
Pad(k) == IF k = 0 THEN "" ELSE " um" \o Pad(k - 1)

RECURSIVE Join(_)
Join(segs) ==
  IF Len(segs) = 1 THEN segs[1] ELSE segs[1] \o " " \o Join(Tail(segs))

\* what is dictated: one to MaxSegments pieces of sentences, with and
\* without an instruction, alone or followed by filler words that bring a
\* piece of four words to the length limit, a longer one beyond it
Texts ==
  LET Segments ==
        { "this is a slack message", "Context: WhatsApp", "context: code",
          "send this to the coding agent", "hello team thanks", "dear sir",
          "please see the email about the contract", "debug the function",
          "post a message in the channel", "see you at ten",
          "however we need more time", "this is fine", "in code" }
  IN { Join(segs) \o Pad(k) :
         segs \in UNION { [1..n -> Segments] : n \in 1..MaxSegments },
         k \in {0, long_text_words - 4} }

\* str.lower()
RECURSIVE Lower(_)
Lower(text) ==
  LET UpperCase == "ABCDEFGHIJKLMNOPQRSTUVWXYZ"
      LowerCase == "abcdefghijklmnopqrstuvwxyz"
      at == {i \in 1..Len(UpperCase) : SubSeq(UpperCase, i, i) = text}
      half == Len(text) \div 2
  IN IF text = "" THEN ""
     ELSE IF Len(text) = 1
       THEN IF at = {} THEN text
            ELSE LET i == CHOOSE i \in at : TRUE IN SubSeq(LowerCase, i, i)
     ELSE Lower(SubSeq(text, 1, half)) \o Lower(SubSeq(text, half + 1, Len(text)))

\* text[i:i+len(a)] == a
StartsAt(text, i, a) ==
  /\ i + Len(a) - 1 <= Len(text)
  /\ SubSeq(text, i, i + Len(a) - 1) = a

\* `cue in text`
Contains(text, cue) == \E i \in 1..Len(text) : StartsAt(text, i, cue)

\* str.strip()
RECURSIVE Strip(_)
Strip(text) ==
  IF text = "" THEN ""
  ELSE IF SubSeq(text, 1, 1) = " " THEN Strip(SubSeq(text, 2, Len(text)))
  ELSE IF SubSeq(text, Len(text), Len(text)) = " "
    THEN Strip(SubSeq(text, 1, Len(text) - 1))
  ELSE text

\* len(text.split())
WordCount(text) ==
  Cardinality({ i \in 1..Len(text) :
    /\ SubSeq(text, i, i) # " "
    /\ i = 1 \/ SubSeq(text, i - 1, i - 1) = " " })

\* ---- the regular expressions of _extract_explicit_context, line 196-207.
\* A pattern is the sequence of its parts, a part the alternatives it can
\* match in the order the engine tries them: (a )? is <<"a ", "">>, \s* is
\* the longest run of blanks first.
context_patterns ==
  LET Opt(a) == <<a, "">>
      Blanks == <<"  ", " ", "">>
      ThisIs(rest) == << <<"this is ">>, Opt("a "), <<rest>> >>
      SendAs(rest) == << <<"send ">>, Opt("this "), <<"as ">>, Opt("a "), <<rest>> >>
      ContextIs(rest) == << <<"context:">>, Blanks, <<rest>> >>
  IN
  << <<"code_window", << <<"this is ">>, Opt("a "), <<"code", "coding", "text">>,
                         <<" ">>, <<"window", "editor", "message">> >> >>,
     <<"code_window", << <<"send ">>, Opt("this "), <<"as ">>, Opt("a "),
                         <<"code", "coding">>, <<" ">>, <<"window", "message">> >> >>,
     <<"code_window", ContextIs("code")>>,
     <<"coding_agent", << <<"this is ">>, Opt("a "), <<"coding agent ">>,
                          <<"request", "message">> >> >>,
     <<"coding_agent", << <<"send ">>, Opt("this "), <<"to ">>, Opt("the "),
                          <<"coding agent">> >> >>,
     <<"coding_agent", ContextIs("coding agent")>>,
     <<"slack", ThisIs("slack message")>>,
     <<"slack", SendAs("slack message")>>,
     <<"slack", ContextIs("slack")>>,
     <<"whatsapp", ThisIs("whatsapp message")>>,
     <<"whatsapp", SendAs("whatsapp message")>>,
     <<"whatsapp", ContextIs("whatsapp")>>,
     <<"formal_email", ThisIs("formal email")>>,
     <<"formal_email", SendAs("formal email")>>,
     <<"formal_email", ContextIs("formal email")>>,
     <<"casual_email", ThisIs("casual email")>>,
     <<"casual_email", SendAs("casual email")>>,
     <<"casual_email", ContextIs("casual email")>>,
     <<"casual_message", ThisIs("casual message")>>,
     <<"casual_message", SendAs("casual message")>>,
     <<"casual_message", ContextIs("casual message")>> >>

\* the position after a match of the parts that begins at i, 0 if there is
\* none: the first alternative with which the rest matches
RECURSIVE MatchEnd(_, _, _)
MatchEnd(parts, text, i) ==
  IF parts = <<>> THEN i
  ELSE LET alts == Head(parts)
           fits(k) == /\ StartsAt(text, i, alts[k])
                      /\ MatchEnd(Tail(parts), text, i + Len(alts[k])) # 0
           ks == {k \in 1..Len(alts) : fits(k)}
       IN IF ks = {} THEN 0
          ELSE LET k == CHOOSE k \in ks : \A l \in ks : k <= l
               IN MatchEnd(Tail(parts), text, i + Len(alts[k]))

\* re.search(pat, lowered): where the leftmost match begins, 0 if none
re_search(parts, text) ==
  LET starts == {i \in 1..Len(text) : MatchEnd(parts, text, i) # 0}
  IN IF starts = {} THEN 0 ELSE CHOOSE i \in starts : \A j \in starts : i <= j

\* _extract_explicit_context (184-217): the first pattern, in the order of
\* the table, that is found; its match is cut out of the text
_extract_explicit_context(text) ==
  LET lowered == Lower(text)
      found == {n \in 1..Len(context_patterns) :
                  re_search(context_patterns[n][2], lowered) # 0}
  IN IF found = {} THEN <<text, "None">>
     ELSE LET n == CHOOSE n \in found : \A m \in found : n <= m
              start == re_search(context_patterns[n][2], lowered)
              end == MatchEnd(context_patterns[n][2], lowered, start)
              cleaned == SubSeq(text, 1, start - 1) \o SubSeq(text, end, Len(text))
          IN <<Strip(cleaned), context_patterns[n][1]>>

\* the cue lists of _detect_communication_context (306-338)
cue_lists ==
  [ code_window |-> {"code window", "coding window", "in a code", "in code",
                     "im in a code", "i'm in a code", "text editor",
                     "in a text editor", "i'm in a text editor",
                     "editor window", "code editor"},
    coding_agent |-> {"cursor", "code", "coding", "agent", "programming",
                      "debug", "function", "variable"},
    slack |-> {"slack", "channel", "thread"},
    whatsapp |-> {"whatsapp", "chat", "message"},
    salutation |-> {"dear sir", "dear madam", "to whom it may concern",
                    "yours faithfully", "yours sincerely"},
    email |-> {"email", "mail"},
    business |-> {"meeting", "proposal", "contract", "business"},
    greeting |-> {"hi", "hello", "hey", "cheers", "thanks"},
    connective |-> {"please", "kindly", "regarding", "furthermore", "however"} ]

\* any(cue in text_lower for cue in cues)
AnyIn(cues, text_lower) == \E cue \in cues : Contains(text_lower, cue)

\* the chain with the slack and the whatsapp branches the other way round
_detect_communication_context_whatsapp_first(text) ==
  LET text_lower == Lower(text) IN
  IF AnyIn(cue_lists.code_window, text_lower) THEN "code_window"
  ELSE IF AnyIn(cue_lists.coding_agent, text_lower) THEN "coding_agent"
  ELSE IF AnyIn(cue_lists.whatsapp, text_lower) THEN "whatsapp"
  ELSE IF AnyIn(cue_lists.slack, text_lower) THEN "slack"
  ELSE IF AnyIn(cue_lists.salutation, text_lower) THEN "formal_email"
  ELSE IF AnyIn(cue_lists.email, text_lower) /\ AnyIn(cue_lists.business, text_lower)
    THEN "formal_email"
  ELSE IF AnyIn(cue_lists.greeting, text_lower) THEN "casual_email"
  ELSE IF WordCount(text) > long_text_words
    THEN IF AnyIn(cue_lists.connective, text_lower) THEN "formal_email"
         ELSE "casual_email"
  ELSE "casual_message"

\* _detect_communication_context (306-338): the if/elif chain
_detect_communication_context(text) ==
  LET text_lower == Lower(text) IN
  IF AnyIn(cue_lists.code_window, text_lower) THEN "code_window"
  ELSE IF AnyIn(cue_lists.coding_agent, text_lower) THEN "coding_agent"
  ELSE IF AnyIn(cue_lists.slack, text_lower) THEN "slack"
  ELSE IF AnyIn(cue_lists.whatsapp, text_lower) THEN "whatsapp"
  ELSE IF AnyIn(cue_lists.salutation, text_lower) THEN "formal_email"
  ELSE IF AnyIn(cue_lists.email, text_lower) /\ AnyIn(cue_lists.business, text_lower)
    THEN "formal_email"
  ELSE IF AnyIn(cue_lists.greeting, text_lower) THEN "casual_email"
  ELSE IF WordCount(text) > long_text_words
    THEN IF AnyIn(cue_lists.connective, text_lower) THEN "formal_email"
         ELSE "casual_email"
  ELSE "casual_message"

\* _clean_dictated_text_with_context, line 267
clean_extract ==
  /\ xpc = "input"
  /\ LET r == _extract_explicit_context(dictated) IN
       /\ cleaned_raw' = r[1]
       /\ explicit_ctx' = r[2]
  /\ xpc' = "extracted"
  /\ UNCHANGED <<dictated, base_text, ctx_type>>
  /\ UNCHANGED <<llm_enabled, notCtxVars>>

\* line 268-271: base_text = cleaned_raw or raw_text; the context is the
\* explicit one or the detected one; the prompt is made of base_text
clean_resolve ==
  /\ xpc = "extracted"
  /\ LET base == IF cleaned_raw # "" THEN cleaned_raw ELSE dictated IN
       /\ base_text' = base
       /\ ctx_type' = IF explicit_ctx # "None" THEN explicit_ctx
                          ELSE _detect_communication_context(base)
  /\ xpc' = "resolved"
  /\ UNCHANGED <<dictated, cleaned_raw, explicit_ctx>>
  /\ UNCHANGED <<llm_enabled, notCtxVars>>

InitContext ==
  /\ RecInit
  /\ SesInit
  /\ TrInit
  /\ LpInit
  /\ DmInit
  /\ AppInit
  /\ llm_enabled = TRUE
  /\ HkInit /\ PasteInit /\ CfgInit
  /\ \E text \in Texts : CtxGiven(text)

NextContext ==
  \/ clean_extract
  \/ clean_resolve

SpecContext == InitContext /\ [][NextContext]_vars

\* ------------------------------------------------ claims on the recorder
\* C1: in every reachable state at most one capture thread is alive and
\* running a capture loop, also after a join that timed out.
C1_OneCaptureLoop ==
  Cardinality({t \in Threads : tpc[t] \in CaptureLoopPcs}) <= 1

\* C4: when the drain of the sample queue begins the capture thread has
\* exited or been force-cleaned, and from then on no chunk is put on the
\* queue.
C4_StopThenCollect ==
  /\ [](cpc = "stop_drain" =>
          \/ forced
          \/ recording_thread = NoRef
          \/ ~is_alive(recording_thread))
  /\ [][cpc = "stop_drain" => Len(audio_queue') <= Len(audio_queue)]_vars

\* C5: a stop_recording whose join timed out returns, and when it returns
\* is_recording is false and the stream and subprocess handles are cleared.
C5_ForcedStopLeavesClean ==
  [][(cpc = "stop_ret" /\ forced /\ cpc' # cpc) =>
       /\ ~is_recording'
       /\ stream' = NoRef
       /\ pulseaudio_process' = NoRef]_vars

\* C6: start_recording called while is_recording is true returns at once:
\* no force_cleanup, no new thread, the queue, is_recording and
\* recording_thread as they were.
C6_StartIdempotent ==
  [][(cpc = "start_check" /\ is_recording /\ cpc' # cpc) =>
       /\ cpc' \notin {"start_fc", "start_spawn"}
       /\ UNCHANGED <<is_recording, audio_queue, recording_thread, tpc,
                      stream, pulseaudio_process>>]_vars

C6_Witness ==
  /\ cpc = "start_check"
  /\ is_recording
  /\ recording_thread # NoRef
  /\ is_alive(recording_thread)

BeforeLoopExit ==
  {"r_begin", "r_reset", "start_check", "start_fc", "start_spawn", "r_loop"}

\* C2: a stop request is accepted at once (should_stop becomes true); run()
\* leaves its polling loop with the recorder still capturing only when the
\* stop was requested and 500 ms have passed since start_time; and when the
\* request came after start_time, nothing but a capture thread's own
\* failure clears is_recording before those 500 ms have passed.
C2_MinimumDuration ==
  [][/\ (apc = "idle" /\ apc' = "stop_wait") => should_stop'
     /\ (cpc = "r_loop" /\ cpc' # cpc /\ is_recording) =>
          (should_stop /\ since_start >= min_recording_time)
     /\ (/\ cpc = "r_loop"
         /\ apc = "stop_wait"
         /\ wait_elapsed <= since_start
         /\ since_start < min_recording_time
         /\ is_recording /\ ~is_recording') => tpc' # tpc]_vars

C2_Witness ==
  /\ cpc = "r_loop"
  /\ apc = "stop_wait"
  /\ should_stop
  /\ is_recording
  /\ wait_elapsed <= since_start
  /\ since_start < min_recording_time

\* C3: no stop request is lost: from the request until run() has left its
\* polling loop, should_stop is true.
C3_NoStopRequestLost ==
  (apc = "stop_wait" /\ cpc \in BeforeLoopExit) => should_stop

\* -------------------------------------------- claims on the transcriber
\* positions of a worker from its start until it has cleared
\* is_transcribing, and until its thread has ended
InFlightPcs == {"start", "transcribe", "finally"}
WorkerRunningPcs == InFlightPcs \cup {"emit"}

\* how many signals of this name were emitted on behalf of request r
Count(name, r) ==
  Cardinality({i \in 1..Len(events) :
                 events[i][1] = name /\ events[i][2] = r})

\* a call of transcribe_streaming made while is_transcribing is true starts
\* no worker, emits nothing and leaves every other request as it was, and
\* a rejected request stays rejected (it is not queued)
RejectedNotQueued ==
  /\ (nreq' # nreq /\ is_transcribing) =>
       /\ wpc'[nreq'] = "rejected"
       /\ \A r \in Requests \ {nreq'} : wpc'[r] = wpc[r]
       /\ UNCHANGED <<events, is_transcribing, llm, active>>
  /\ \A r \in Requests : wpc[r] = "rejected" => wpc'[r] = "rejected"

\* C8 as stated: while is_transcribing is true transcribe_streaming rejects
\* a new request (no worker, no transcription_started, not queued), and at
\* most one worker thread runs at any time.
C8_OneWorkerRuns ==
  /\ [][RejectedNotQueued]_vars
  /\ [](Cardinality({r \in Requests : wpc[r] \in WorkerRunningPcs}) <= 1)

\* C8 as amended: while is_transcribing is true transcribe_streaming rejects
\* a new request (no worker, no transcription_started, not queued), and at
\* most one worker is between its start and the statement that clears
\* is_transcribing; is_transcribing is true exactly while there is one.
C8_SingleInFlight ==
  /\ [][RejectedNotQueued]_vars
  /\ [](Cardinality({r \in Requests : wpc[r] \in InFlightPcs}) <= 1)
  /\ [](is_transcribing <=> \E r \in Requests : wpc[r] \in InFlightPcs)

C8_Witness ==
  \E r, q \in Requests :
    /\ wpc[r] = "rejected"
    /\ wpc[q] \in InFlightPcs

\* C9 as stated: every request handed to transcribe_streaming gets exactly
\* one transcription_finished once it is over, whatever path was taken,
\* and is_transcribing is false when the signal has been emitted.
C9_FinishedOncePerRequest ==
  /\ [](\A r \in Requests :
          Count("transcription_finished", r) =
            IF wpc[r] \in {"rejected", "done"} THEN 1 ELSE 0)
  /\ [][\A r \in Requests :
          (wpc[r] = "emit" /\ wpc'[r] = "done") => ~is_transcribing']_vars

\* C9 as amended: every request that transcribe_streaming accepts gets
\* exactly one transcription_finished, emitted as its worker's last step on
\* every path, and a rejected request gets none; when the signal is emitted
\* is_transcribing is false unless a later request was accepted after the
\* worker cleared the flag.
C9_FinishedOncePerAccepted ==
  /\ [](\A r \in Requests :
          Count("transcription_finished", r) =
            IF wpc[r] = "done" THEN 1 ELSE 0)
  /\ [][\A r \in Requests :
          (wpc[r] = "emit" /\ wpc'[r] = "done") =>
            /\ Count("transcription_finished", r)' = 1
            /\ is_transcribing' =>
                 \E q \in Requests : q > r /\ wpc[q] \in InFlightPcs]_vars

C9_Witness ==
  /\ llm_enabled
  /\ \E r, q \in Requests :
       /\ wpc[r] = "done" /\ llm[r] # "none"
       /\ wpc[q] = "done"
       /\ Count("error_occurred", q) = 1
       /\ Count("transcription_finished", r) = 1
       /\ Count("transcription_finished", q) = 1

\* C10: transcription_finished is the last signal of its request: no
\* final_result_with_context, llm_processing_finished or error_occurred of
\* a request is emitted after that request's transcription_finished.
C10_FinishedIsTerminal ==
  \A i, j \in 1..Len(events) :
    (/\ i < j
     /\ events[i][1] = "transcription_finished"
     /\ events[j][2] = events[i][2]) =>
      events[j][1] \notin {"final_result_with_context",
                           "llm_processing_finished", "error_occurred"}

\* C11: when the cleanup of a request whose speech-to-text gave a text
\* fails, the transcriber emits exactly one signal for the failure:
\* final_result_with_context carrying that request's raw transcription
\* and the context "unknown" (so no error_occurred, and the utterance is
\* not dropped).
C11_FallbackToRawText ==
  [][\A r \in Requests :
       (llm[r] = "failed" /\ llm'[r] = "handled") =>
         events' = Append(events,
           SignalCtx("final_result_with_context", r, RawText(r), "unknown"))]_vars

\* C12: a request whose engine result was empty or white space only has
\* exactly one error_occurred ("No speech detected"), no
\* final_result_with_context, no final_result, and no cleanup job.
C12_NoSpeechDetected ==
  \A r \in Requests :
    stt_result[r] \in {"empty", "blank"} =>
      /\ Count("error_occurred", r) = 1
      /\ \E i \in 1..Len(events) :
           events[i] = Signal("error_occurred", r, NoSpeechDetected)
      /\ Count("final_result_with_context", r) = 0
      /\ Count("final_result", r) = 0
      /\ Count("llm_processing_started", r) = 0
      /\ llm[r] = "none"
      /\ r \notin active
      /\ raw_transcription # r

C12_Witness ==
  \E r, q \in Requests :
    /\ stt_result[r] = "blank" /\ wpc[r] = "done"
    /\ stt_result[q] = "empty" /\ wpc[q] = "done"


\* ------------------------------------------------ claims on the LLMProcessor
\* C13: with the processor disabled, each call of process_text_async and of
\* process_text_async_with_context has emitted, by the time it returns, its
\* finished signal carrying exactly the text it was given (and the context
\* "unknown" on the context entry point); no thread or worker exists, the
\* registry is as it was, and no request went to the provider.
C13_DisabledPassThrough ==
  ~llm_enabled =>
    /\ ppc = "idle"
    /\ Len(psignals) = ncalls
    /\ \A j \in 1..ncalls :
         psignals[j] = IF job[j].kind = "context"
           THEN <<"processing_finished_with_context", j, job[j].raw_text, "unknown">>
           ELSE <<"processing_finished", j, job[j].raw_text>>
    /\ \A j \in Jobs : jpc[j] = "none" /\ hq[j] = "none"
    /\ _active_threads = <<>>
    /\ _active_workers = <<>>
    /\ provider_requests = {}

C13_Witness ==
  /\ ~llm_enabled
  /\ ncalls = 2
  /\ job[1].kind = "plain"
  /\ job[1].raw_text = "hello world"
  /\ job[2].kind = "context"
  /\ kpc = "done"

\* a registry update is in progress: a call between its two appends, a
\* job's closure between its two removals, cleanup() between its two clears
RegistryUpdateInProgress ==
  \/ ppc = "append_worker"
  \/ kpc = "clear_workers"
  \/ \E j \in Jobs : jpc[j] \in {"c_chk_w", "c_rm_w"}

\* C14: each job's thread and worker are in the registry at most once, are
\* removed exactly once when the job has completed or failed, and before its
\* worker is released; the two lists have the same length whenever no update
\* of the registry is in progress; cleanup() with jobs in flight causes no
\* second removal and no error.
C14_RegistryConsistent ==
  /\ \A j \in Jobs :
       /\ Cardinality({i \in 1..Len(_active_threads) : _active_threads[i] = j}) <= 1
       /\ Cardinality({i \in 1..Len(_active_workers) : _active_workers[i] = j}) <= 1
       /\ nremoved[j].threads <= 1
       /\ nremoved[j].workers <= 1
       /\ jpc[j] \in {"c_release", "done"} =>
            /\ nremoved[j].threads = 1
            /\ nremoved[j].workers = 1
            /\ ~In(j, _active_threads)
            /\ ~In(j, _active_workers)
  /\ ~RegistryUpdateInProgress => Len(_active_threads) = Len(_active_workers)
  /\ raised = {}

\* ------------------------------------------- claims on the device manager
\* C15: after any sequence of configure_preferred_devices,
\* configure_four_device_switching, enable_switching and disable_switching,
\* a start or stop switch that swaps devices swaps those of the mode that was
\* configured last: configuring a mode disables the other one.
C15_LastConfiguredModeSwaps ==
  (last_call.op # "none" /\ last_call.branch # "none") =>
    last_call.branch = configured

\* the device a configured name stands for
Denoted(name) == IF name[1] = "bt_hfp" THEN <<"bluez", name[2]>> ELSE name

\* C16: in four-device mode with switching enabled and every external
\* command succeeding (the detection of the sound system included), the
\* start switch leaves the default source at
\* dictating_mic and the default sink at dictating_output, and the stop
\* switch that follows leaves them at normal_mic and normal_output; a device
\* configured as empty is left as it was.
C16_FourDeviceDefaults ==
  audio_system # "unknown" =>
  /\ (last_call.op = "start" /\ last_call.branch = "four" /\ last_call.ok) =>
       /\ default_source = IF Truthy(dictating_mic) THEN Denoted(dictating_mic)
                           ELSE before.source
       /\ default_sink = IF Truthy(dictating_output) THEN Denoted(dictating_output)
                         ELSE before.sink
  /\ (last_call.op = "stop" /\ last_call.paired /\ last_call.ok) =>
       /\ default_source = IF Truthy(normal_mic) THEN Denoted(normal_mic)
                           ELSE before.source
       /\ default_sink = IF Truthy(normal_output) THEN Denoted(normal_output)
                         ELSE before.sink

\* C17: in four-device mode with Bluetooth switching enabled and every
\* command succeeding, each card the start switch put in a headset profile
\* is in an A2DP profile after the stop switch that follows, however the
\* card is inspected.
C17_BluetoothBackToA2dp ==
  (/\ last_call.op = "stop"
   /\ last_call.paired
   /\ last_call.ok
   /\ bluetooth_switching_enabled) =>
    \A c \in headset_forced : card_profile[c] \in A2dpProfiles

\* ------------------------------------------- claims on the app's handlers
\* C18: a capture is started only when the app's switch to the dictation
\* devices has completed; the switch back to the normal devices is made
\* only after the session has ended or been force-cleaned and the stop
\* sound was triggered, and never while the recorder is capturing.
C18_SwitchAroundCapture ==
  [][/\ (~is_recording /\ is_recording') => devices = "dictation"
     /\ (devices = "dictation" /\ devices' = "normal") =>
          /\ stop_sound
          /\ ~isRunning \/ app_forced
          /\ ~is_recording]_vars


\* ------------------------------------------- claims on the context
\* the contexts an instruction phrase in the text names
InstructionsIn(text) ==
  { context_patterns[n][1] : n \in
      { m \in 1..Len(context_patterns) :
          re_search(context_patterns[m][2], Lower(text)) # 0 } }

\* C19: for a text with an explicit instruction phrase the resolved context
\* is the one an instruction of the text names, whatever cues the text has,
\* and the text handed to the prompt assembly holds no instruction phrase.
C19_ExplicitInstruction ==
  (xpc = "resolved" /\ InstructionsIn(dictated) # {}) =>
    /\ ctx_type \in InstructionsIn(dictated)
    /\ InstructionsIn(base_text) = {}

\* the ordered table of rules: category and whether a cue of it is found
RuleTable(text_lower) ==
  << <<"code_window", AnyIn(cue_lists.code_window, text_lower)>>,
     <<"coding_agent", AnyIn(cue_lists.coding_agent, text_lower)>>,
     <<"slack", AnyIn(cue_lists.slack, text_lower)>>,
     <<"whatsapp", AnyIn(cue_lists.whatsapp, text_lower)>>,
     <<"formal_email", AnyIn(cue_lists.salutation, text_lower)>>,
     <<"formal_email", AnyIn(cue_lists.email, text_lower)
                       /\ AnyIn(cue_lists.business, text_lower)>>,
     <<"casual_email", AnyIn(cue_lists.greeting, text_lower)>> >>

MatchingRules(text) ==
  LET table == RuleTable(Lower(text))
  IN {n \in 1..Len(table) : table[n][2]}

\* the category of the first matching rule, or the length fallback
FirstMatchingRule(text) ==
  LET lowered == Lower(text)
      table == RuleTable(lowered)
      matching == {n \in 1..Len(table) : table[n][2]}
  IN IF matching # {}
       THEN table[CHOOSE n \in matching : \A m \in matching : n <= m][1]
     ELSE IF WordCount(text) > long_text_words
       THEN IF AnyIn(cue_lists.connective, lowered)
              THEN "formal_email" ELSE "casual_email"
     ELSE "casual_message"

\* C20: for a text without an explicit instruction the detected context is
\* the category of the first rule of the table that matches; when none
\* matches it is formal_email for more than 50 words with a formal
\* connective, casual_email for more than 50 words without one, and
\* casual_message for 50 words or fewer.
C20_FirstMatchingRule ==
  (xpc = "resolved" /\ explicit_ctx = "None") =>
    /\ InstructionsIn(dictated) = {}
    /\ base_text = dictated
    /\ ctx_type = FirstMatchingRule(dictated)

C20_Witness ==
  /\ xpc = "resolved"
  /\ dictated = "however we need more time" \o Pad(long_text_words - 4)
  /\ MatchingRules(dictated) = {}
  /\ WordCount(dictated) = long_text_words + 1
  /\ ctx_type = "formal_email"

\* ------------------------------------- claims on the capture thread's exit
\* C23: a step of a capture thread that is not the recorder's current
\* thread (a stale thread of an earlier session) leaves is_recording as it
\* is and touches no stream or subprocess but its own.
C23_ExitAffectsOwnSession ==
  [][\A t \in Threads :
       (/\ tpc[t] # "unborn"
        /\ tpc'[t] # tpc[t]
        /\ recording_thread # t) =>
         /\ is_recording' = is_recording
         /\ \A u \in Threads \ {t} : handle'[u] = handle[u]]_vars

\* C24: when the recorder's capture thread has ended, is_recording is false:
\* start_recording sets the flag together with the thread, so a dead thread
\* under a true flag is a thread that ended on its own and left it set.
C24_EndedMeansNotCapturing ==
  (recording_thread # NoRef /\ tpc[recording_thread] = "dead") => ~is_recording

\* C26: the last step of a capture thread leaves stream and
\* pulseaudio_process cleared, and a thread that has exited has no stream
\* or subprocess of its own still open.
C26_ExitReleasesHandle ==
  /\ [][\A t \in Threads :
          (tpc[t] # "dead" /\ tpc'[t] = "dead") =>
            (stream' = NoRef /\ pulseaudio_process' = NoRef)]_vars
  /\ [](\A t \in Threads :
          tpc[t] = "dead" => handle[t] \in {"none", "closed"})

\* ------------------------------------ claims on the fallback and the result
\* C28: a final_result_with_context emitted with the context "unknown" on
\* behalf of a request (the fallback after a failed cleanup, or the result
\* without cleanup) carries the raw transcription of that same request,
\* whatever was accepted and transcribed in the meantime.
C28_FallbackOfSameRequest ==
  \A i \in 1..Len(events) :
    (events[i][1] = "final_result_with_context" /\ events[i][4] = "unknown") =>
      events[i][3] = RawText(events[i][2])

\* C29: an accepted request whose speech-to-text gave a text gets its
\* final_result_with_context: never two, and in the end one, with cleanup
\* disabled, after a cleanup that succeeded and after one that failed.
C29_OneFinalResult ==
  /\ [](\A r \in Requests : Count("final_result_with_context", r) <= 1)
  /\ \A r \in Requests :
       (stt_result[r] = "speech") ~> (Count("final_result_with_context", r) = 1)

C29_Witness ==
  /\ llm_enabled
  /\ \E r, q \in Requests :
       /\ stt_result[r] = "speech" /\ stt_result[q] = "speech"
       /\ llm[r] = "handled" /\ llm[q] = "handled"
       /\ \E i \in 1..Len(events) :
            events[i] = SignalCtx("final_result_with_context", r,
                                  CleanedText(r), DetectedContext)
       /\ \E i \in 1..Len(events) :
            /\ events[i][1] = "final_result_with_context"
            /\ events[i][2] = q
            /\ events[i][4] = "unknown"
       /\ Count("final_result_with_context", r) = 1
       /\ Count("final_result_with_context", q) = 1

\* ------------------------------------------- claims on the cleanup worker
\* the places in the log of the processor's signals (llm_processor.py:
\* 165-171) of those emitted for job j under one of these names
ProcessorSignals(j, names) ==
  {i \in 1..Len(psignals) : psignals[i][1] \in names /\ psignals[i][2] = j}

\* C30: a worker whose process() has come to its end has emitted exactly one
\* signal, failed when the cleanup call raised and finished when it returned
\* a text; the failure reaches the processor's listeners as one
\* processing_failed carrying a message and no finished signal; and the step
\* of the worker leaves the thread that made the call where it is.
C30_WorkerEmitsOne ==
  /\ [](\A j \in Jobs :
          /\ job[j].call # "none" =>
               /\ Len(job[j].result) = 1
               /\ job[j].call = "raised" <=> job[j].result = <<"failed">>
               /\ job[j].call = "returned" <=> job[j].result = <<"finished">>
               /\ hq[j] \in {"queued", "handled"}
          /\ (job[j].call = "raised" /\ hq[j] = "handled") =>
               /\ Cardinality(ProcessorSignals(j, {"processing_failed"})) = 1
               /\ \A i \in ProcessorSignals(j, {"processing_failed"}) :
                    psignals[i][3] # ""
               /\ ProcessorSignals(j, {"processing_finished",
                    "processing_finished_with_context"}) = {}
          /\ (job[j].call = "returned" /\ hq[j] = "handled") =>
               /\ Cardinality(ProcessorSignals(j, {"processing_finished",
                    "processing_finished_with_context"})) = 1
               /\ ProcessorSignals(j, {"processing_failed"}) = {})
  /\ [][\A j \in Jobs :
          (job[j].call = "none" /\ job'[j].call # "none") =>
            UNCHANGED <<ppc, ncalls, kpc>>]_vars

C30_Witness ==
  \E j, k \in Jobs :
    /\ job[j].call = "raised" /\ job[j].kind = "plain" /\ hq[j] = "handled"
    /\ job[k].call = "returned" /\ job[k].kind = "context" /\ hq[k] = "handled"

\* --------------------------------------- claims on the empty-read limit
\* C27: a capture thread in the piped loop whose reads do not keep raising
\* leaves the loop, whether or not a stop is requested (every run of empty
\* polls is bounded); the loop is left by the break exactly at the poll
\* that makes more than max_no_data consecutive empty polls; every empty
\* poll adds one to the counter and every non-empty read resets it.
C27_EmptyPollsEndLoop ==
  /\ \A t \in Threads :
       \/ []<><<record_with_pulseaudio_read_error(t)>>_vars
       \/ (tpc[t] \in {"pa_loop", "pa_read", "pa_put"})
            ~> (tpc[t] \notin {"pa_loop", "pa_read", "pa_put"})
  /\ [](\A t \in Threads :
          tpc[t] \in {"pa_loop", "pa_read", "pa_put"} =>
            no_data_count[t] <= max_no_data)
  /\ [][\A t \in Threads :
          /\ (tpc[t] = "pa_read" /\ tpc'[t] = "cleanup") =>
               /\ no_data_count[t] = max_no_data
               /\ no_data_count'[t] = max_no_data + 1
          /\ (tpc[t] = "pa_read" /\ tpc'[t] = "pa_put") =>
               no_data_count'[t] = 0
          /\ (tpc[t] = "pa_read" /\ tpc'[t] = "pa_loop"
                /\ ~record_with_pulseaudio_read_error(t)) =>
               no_data_count'[t] = no_data_count[t] + 1]_vars

\* the subprocess runs, a chunk was delivered earlier, no stop was
\* requested, and the loop was left by the break
C27_Witness ==
  \E t \in Threads :
    /\ tpc[t] = "cleanup"
    /\ no_data_count[t] = max_no_data + 1
    /\ handle[t] = "running"
    /\ pulseaudio_process = t
    /\ recording_thread = t
    /\ is_recording
    /\ cpc = "idle"
    /\ audio_queue # <<>>

\* ------------------------------------------ claims on the returned buffer
\* C21: when a stop_recording that follows a start_recording returns and
\* chunks were put on the queue since that start (the queue is created by
\* start_recording, so they are the chunks collected by this call followed
\* by those still queued), the value returned is the buffer of one mono
\* sample per chunk in arrival order, and the queue is empty.
C21_OrderedConcatenation ==
  [][(cpc \in {"stop_check", "stop_ret"} /\ cpc' \notin {cpc, "stop_join"}
        /\ audio_chunks \o audio_queue # <<>>) =>
       /\ audio_data' = <<"buf", audio_chunks \o audio_queue>>
       /\ audio_queue' = <<>>]_vars

\* ------------------------------------------ claims on capture failures
\* C25: a read error in the piped loop ends the loop; and a failure of a
\* capture thread (the device cannot be opened, the stream cannot be
\* started, the subprocess cannot be launched or its handle is gone) that
\* happens in an open session with chunks queued leaves the session open,
\* so that the stop_recording ending it passes its guard (line 302-304)
\* and returns them.
C25_FailureKeepsChunks ==
  [][\A t \in Threads :
       /\ record_with_pulseaudio_read_error(t) => tpc'[t] = "cleanup"
       /\ (tpc[t] \in {"sd_open", "pa_setup", "pa_check"}
             /\ tpc'[t] = "cleanup" /\ is_recording /\ audio_queue # <<>>)
            => is_recording']_vars

\* -------------------------------------- claims on the minimum duration
\* the audio a returned value holds, in ms: sample count / sample rate
\* (len(audio_data) / 16000, audio_recorder.py:12 and 343), None holding none
BufferMs(buffer) ==
  IF buffer = Null THEN 0 ELSE Len(buffer[2]) * ChunkMs

\* C22: when the stop request that ended the polling loop of a session
\* was made before the minimum recording time had passed, the buffer that
\* the run of that session yields (the value it is about to emit) holds
\* audio spanning at least the minimum recording time.  Stated for the
\* runs that yield a buffer: a run that yields None, after a failure of
\* the device or a set-up longer than the floor, holds no audio at all.
C22_BufferSpansMinimum ==
  (cpc = "r_emit" /\ should_stop /\ stop_early /\ audio_data # Null) =>
    BufferMs(audio_data) >= min_recording_time

\* ------------------------------------- claims on the emitted buffer
\* C31: when the recorder's stop_recording returns to the run of a session
\* and at least one chunk was captured since that session's start (the
\* chunks this call collected and those still on the queue), the value
\* that run() is about to emit with recording_finished is not None.
C31_CapturedMeansBuffer ==
  [][(cpc \in {"stop_check", "stop_ret"} /\ cpc' = "r_emit"
        /\ audio_chunks \o audio_queue # <<>>) =>
       audio_data' # Null]_vars

\* ------------------------------------------------- DBusHotkeyManager
\* the ToggleRecording signals a behaviour handles at most
MaxToggles == 4

\* the ToggleRecording signals handled so far: each invoked one of the two
\* callbacks wired at main.py:271-272
Toggles ==
  Cardinality({i \in 1..Len(callbacks) : callbacks[i] # "on_mode_change"})

toggled_stuck(recording) == TRUE
\* line 81: self._recording = not self._recording
toggled(recording) == ~recording

\* _handle_toggle_recording, line 81-91, up to the call of the callback:
\* the flag is flipped, the mode follows it, the callback of that branch is
\* invoked (on_start_recording and on_stop_recording are both set, main.py:
\* 271-272)
_handle_toggle_recording(callback) ==
  /\ hpc = "idle"
  /\ Toggles < MaxToggles
  /\ _recording' = toggled(_recording)
  /\ mode' = IF _recording' THEN "hands_free" ELSE "idle"
  /\ callback = IF _recording' THEN "on_start_recording"
                               ELSE "on_stop_recording"
  /\ callbacks' = Append(callbacks, callback)
  /\ hpc' = "in_callback"

\* WhisperKeyApp.start_recording, main.py:322-327: a session is running,
\* the start sound is played and the call returns
WhisperKeyApp_start_recording_ignored ==
  /\ apc = "idle"
  /\ isRunning
  /\ UNCHANGED <<baseVars, lpVars, dmVars, appVars, ctxVars, pasteVars,
                 cfgVars>>

\* WhisperKeyApp.stop_recording, main.py:357-359: no session is running,
\* the call returns
WhisperKeyApp_stop_recording_ignored ==
  /\ apc = "idle"
  /\ ~isRunning
  /\ UNCHANGED <<baseVars, lpVars, dmVars, appVars, ctxVars, pasteVars,
                 cfgVars>>

\* dbus_hotkey_manager.py:86-87, self.on_start_recording(): the handler of
\* the application begins, or returns at once
on_start_recording ==
  /\ _handle_toggle_recording("on_start_recording")
  /\ WhisperKeyApp_start_switch

on_start_recording_ignored ==
  /\ _handle_toggle_recording("on_start_recording")
  /\ WhisperKeyApp_start_recording_ignored

\* dbus_hotkey_manager.py:92-93, self.on_stop_recording()
on_stop_recording ==
  /\ _handle_toggle_recording("on_stop_recording")
  /\ WhisperKeyApp_stop_recording

on_stop_recording_ignored ==
  /\ _handle_toggle_recording("on_stop_recording")
  /\ WhisperKeyApp_stop_recording_ignored

\* line 94-95: the callback has returned, self.on_mode_change(self.mode);
\* WhisperKeyApp.on_mode_change (main.py:570-575) sets current_mode
on_mode_change ==
  /\ hpc = "in_callback"
  /\ apc = "idle"
  /\ callbacks' = Append(callbacks, "on_mode_change")
  /\ hpc' = "idle"
  /\ UNCHANGED <<baseVars, lpVars, dmVars, appVars, ctxVars, pasteVars,
                 cfgVars, _recording, mode>>

\* the properties is_recording (line 107-110) and current_mode (112-115)
DBusHotkeyManager_is_recording == _recording
current_mode == mode

\* the application driven by the hotkey: every start and stop is the
\* callback of a ToggleRecording signal
NextHotkey ==
  \/ on_start_recording
  \/ on_start_recording_ignored
  \/ on_stop_recording
  \/ on_stop_recording_ignored
  \/ on_mode_change
  \/ WhisperKeyApp_start_thread
  \/ WhisperKeyApp_wait_finished
  \/ WhisperKeyApp_wait_timeout
  \/ WhisperKeyApp_play_stop
  \/ WhisperKeyApp_stop_switch
  \/ Tick
  \/ run_begin
  \/ run_reset
  \/ start_recording_check("r_loop")
  \/ start_recording_force_cleanup
  \/ start_recording_spawn("r_loop")
  \/ run_loop_exit
  \/ stop_recording_check("r_emit")
  \/ stop_recording_join
  \/ stop_recording_force_cleanup
  \/ stop_recording_drain
  \/ stop_recording_return("r_emit")
  \/ run_emit
  \/ \E t \in Threads : CaptureThread(t)

SpecHotkey == InitSession /\ [][NextHotkey]_vars

\* the callback the n-th signal invokes
CallbackOfSignal(n) ==
  IF n % 2 = 1 THEN "on_start_recording" ELSE "on_stop_recording"

\* C39: for any sequence of ToggleRecording signals the callbacks invoked
\* are, in order, on_start_recording for the 1st, 3rd, ... signal and
\* on_stop_recording for the 2nd, 4th, ... signal, each followed by one
\* on_mode_change before the next signal is handled; and in every state
\* current_mode is HANDS_FREE exactly when is_recording is true, and IDLE
\* otherwise.
C39_ToggleAlternates ==
  /\ \A i \in 1..Len(callbacks) :
       callbacks[i] = IF i % 2 = 1 THEN CallbackOfSignal((i + 1) \div 2)
                                   ELSE "on_mode_change"
  /\ hpc = "idle" => Len(callbacks) % 2 = 0
  /\ current_mode = IF DBusHotkeyManager_is_recording THEN "hands_free"
                                                      ELSE "idle"

\* four signals were handled: two starts and two stops, each with its
\* mode change
C39_Witness ==
  /\ Len(callbacks) = 2 * MaxToggles
  /\ hpc = "idle"
  /\ current_mode = "idle"

\* C32: when the handling of a toggle signal completes, _recording is true
\* if and only if the application's recording session is running.
C32_ToggleAgreesWithSession ==
  [][(hpc = "in_callback" /\ hpc' = "idle") =>
       (_recording' <=> isRunning')]_vars

\* C33: once a stop toggle has been handled and no session is running, the
\* default devices are the normal ones again: every switch to the
\* dictation devices was followed by a switch back.
C33_SwitchedBackAfterSession ==
  (hpc = "idle" /\ apc = "idle" /\ ~_recording /\ ~isRunning) =>
    devices = "normal"

\* ------------------------------------------- the clipboard and the paste
\* the transcription completions and history pastes of a behaviour
MaxPastes == 3

\* the transcriptions completed so far: each scheduled one timer, pending
\* or fired
Completions ==
  Len(timers)
    + Cardinality({i \in 1..Len(injected) : injected[i].by = "timer"})

PasteOps == Len(timers) + Len(injected)

\* WhisperKeyApp._get_paste_method_for_context, main.py:464-469
_get_paste_method_for_context(context_type) ==
  IF context_type = "code_window" THEN "ctrl+v" ELSE "ctrl+shift+v"

\* WhisperKeyApp._paste_text_with_method, main.py:471-513, with a window
\* manager: clipboard.setText(text) (line 484-490) and xclip (line 493-499,
\* 550-568) each set the clipboard or fail without raising; then
\* QTimer.singleShot(500, lambda: self._do_paste(paste_method, text))
_paste_text_with_method(text, paste_method, qt_success, xclip_success) ==
  /\ clipboard' = IF qt_success \/ xclip_success THEN text ELSE clipboard
  /\ timers' = Append(timers, [method |-> paste_method, text |-> text,
                               set |-> qt_success \/ xclip_success])
  /\ UNCHANGED injected

\* WhisperKeyApp.on_transcription_complete, main.py:414-432
on_transcription_complete ==
  /\ PasteOps < MaxPastes
  /\ \E qt_success, xclip_success \in BOOLEAN :
       _paste_text_with_method(RawText(Completions + 1), "ctrl+shift+v",
                               qt_success, xclip_success)
  /\ UNCHANGED <<baseVars, lpVars, dmVars, appVars, ctxVars, hkVars, cfgVars>>

\* WhisperKeyApp.on_transcription_complete_with_context, main.py:434-462
on_transcription_complete_with_context ==
  /\ PasteOps < MaxPastes
  /\ \E context_type \in {"code_window", "general"} :
     \E qt_success, xclip_success \in BOOLEAN :
       _paste_text_with_method(CleanedText(Completions + 1),
                               _get_paste_method_for_context(context_type),
                               qt_success, xclip_success)
  /\ UNCHANGED <<baseVars, lpVars, dmVars, appVars, ctxVars, hkVars, cfgVars>>

\* WhisperKeyApp._do_paste, main.py:515-548: the oldest timer fires;
\* window_manager.paste_to_previous_window(paste_method=paste_method) is
\* handed the key combination only and pastes what the clipboard holds
_do_paste ==
  /\ timers # <<>>
  /\ \E success \in BOOLEAN :
       injected' = Append(injected,
                     [text |-> Head(timers).text,
                      pasted |-> IF success THEN clipboard ELSE NoText,
                      by |-> "timer", set |-> Head(timers).set])
  /\ timers' = Tail(timers)
  /\ UNCHANGED <<clipboard, baseVars, lpVars, dmVars, appVars, ctxVars,
                 hkVars, cfgVars>>

\* WhisperKeyTrayIcon.paste_text, tray_icon.py:298-341, of an entry of the
\* history: _set_clipboard_with_fallbacks (343-400), then the paste at once
paste_text ==
  /\ PasteOps < MaxPastes
  /\ \E k \in 1..Completions, clipboard_success, success \in BOOLEAN :
       /\ clipboard' = IF clipboard_success THEN RawText(k) ELSE clipboard
       /\ injected' = Append(injected,
                        [text |-> RawText(k),
                         pasted |-> IF success THEN clipboard' ELSE NoText,
                         by |-> "history", set |-> clipboard_success])
  /\ UNCHANGED <<timers, baseVars, lpVars, dmVars, appVars, ctxVars, hkVars,
                 cfgVars>>

NextPaste ==
  \/ on_transcription_complete
  \/ on_transcription_complete_with_context
  \/ _do_paste
  \/ paste_text

SpecPaste == InitSession /\ [][NextPaste]_vars

\* C34: the text a paste timer injects is the text of the transcription
\* that scheduled it: for every paste injected by _do_paste whose clipboard
\* set succeeded, the text pasted is the text handed to
\* _paste_text_with_method (no other completion and no history paste has
\* replaced the clipboard in between).
C34_PastedIsScheduled ==
  \A i \in 1..Len(injected) :
    (injected[i].by = "timer" /\ injected[i].set
       /\ injected[i].pasted # NoText) =>
      injected[i].pasted = injected[i].text

\* --------------------------------------- claims on the headset sequence
\* the profiles of the sequence of _switch_bluetooth_card_to_headset
\* (audio_device_manager.py:789, 799, 809)
HeadsetSequence ==
  <<"headset-head-unit-msbc", "off", "headset-head-unit-msbc">>

\* the commands of a log that address a card
CardCmds(log, card) ==
  SelectSeq(log, LAMBDA cmd : cmd[1] = "set-card-profile" /\ cmd[2] = card)

\* C35: whichever step fails, _switch_bluetooth_card_to_headset issues
\* set-card-profile for headset, off, headset in that order and nothing
\* after the step that failed, and it returns True only when the three
\* steps were issued and none failed; switch_bluetooth_to_headset_mode
\* (switching enabled) applies the sequence to a card for which no profile
\* was detected or whose active profile is a2dp-sink.
C35_HeadsetSequence ==
  \A c \in Cards, f \in Failures :
    LET S == _switch_bluetooth_card_to_headset(Sys0, c, f.bt_fail)
        L == switch_bluetooth_to_headset_mode(Sys0, f)
        n == Len(S.cmds)
    IN /\ n \in 1..3
       /\ \A i \in 1..n :
            S.cmds[i] = <<"set-card-profile", c, HeadsetSequence[i]>>
       /\ f.bt_fail # 0 => n = f.bt_fail
       /\ S.ret = << <<c, TRUE>> >> =>
            (n = 3 /\ f.bt_fail = 0 /\ S.prof[c] = HeadsetSequence[3])
       /\ S.ret \in { << <<c, TRUE>> >>, << <<c, FALSE>> >> }
       /\ ( /\ bluetooth_switching_enabled
            /\ \/ available_profiles(c) = {}
               \/ (card_detect[c] # "short_only" /\ card_profile[c] = "a2dp-sink") )
            => CardCmds(L.cmds, c) = S.cmds

\* a start switch has applied the whole sequence to the card, another one
\* the sequence up to a failing second step
C35_Witness ==
  /\ last_call.op = "start"
  /\ bluetooth_switching_enabled
  /\ Len(cmds) >= 3
  /\ \A i \in 1..3 : cmds[i] = <<"set-card-profile", "c1", HeadsetSequence[i]>>
  /\ card_profile["c1"] = "headset-head-unit-msbc"

\* C36: when a switch has issued the OFF step of the sequence for a card,
\* the card is not in the off profile once the switch has returned.
C36_NotLeftOff ==
  \A c \in Cards :
    (\E i \in 1..Len(cmds) : cmds[i] = <<"set-card-profile", c, "off">>) =>
      card_profile[c] # "off"

\* C37: while bluetooth_switching_enabled is false, the commands issued by
\* the last start or stop switch hold no set-card-profile.
C37_NoProfileCommandWhenDisabled ==
  ~bluetooth_switching_enabled =>
    \A i \in 1..Len(cmds) : cmds[i][1] # "set-card-profile"

\* ------------------------- WhisperKeyApp.start_recording and the switch
switch_raises_on_failure(f) == f # NoFailure
\* whether a failure of an external call leaves start_recording_audio_switch
\* as an exception: every external call is made inside a try block whose
\* handler catches Exception (audio_device_manager.py:308-337, 342-368,
\* 410-426, 613-678, 685-694, 723-734, 785-827, 910-928)
switch_raises(f) == FALSE

\* WhisperKeyApp.start_recording, main.py:322-333, with the manager's
\* switch and its external calls failing as f says; an exception of the
\* switch would end the handler before recording_thread.start() (line 343)
WhisperKeyApp_start_recording_switch(f) ==
  /\ apc = "idle"
  /\ ~isRunning
  /\ \E t \in Threads : tpc[t] = "unborn"
  /\ AudioDeviceManager_start_recording_audio_switch(f)
  /\ devices' = "dictation"
  /\ stop_sound' = FALSE
  /\ app_forced' = FALSE
  /\ apc' = IF switch_raises(f) THEN "idle" ELSE "start_thread"
  /\ UNCHANGED <<recVars, thrVars, cliVars, should_stop, stop_early,
                 since_start, wait_elapsed, trVars, lpVars, ctxVars, hkVars,
                 pasteVars, cfgVars>>

\* the manager as it is configured, the start handler of the application
\* with the manager's switch, and the stop switch of the manager
NextSwitch ==
  \/ configure_preferred_devices(<<"index", "3">>, <<"index", "3">>)
  \/ \E c \in
       { << <<"index", "1">>, <<"index", "1">>, <<"index", "2">>, <<"index", "2">> >>,
         << <<"bt_hfp", "c1">>, <<"bt_hfp", "c1">>, <<"index", "2">>, <<"index", "2">> >>,
         << Empty, <<"index", "1">>, <<"index", "2">>, Empty >> } :
       configure_four_device_switching(c[1], c[2], c[3], c[4])
  \/ disable_switching
  \/ enable_switching
  \/ enable_bluetooth_switching
  \/ disable_bluetooth_switching
  \/ \E f \in Failures : WhisperKeyApp_start_recording_switch(f)
  \/ WhisperKeyApp_start_thread
  \/ \E f \in Failures : stop_recording_audio_switch(f)

SpecSwitch == InitDevices /\ [][NextSwitch]_vars

\* the set-default-source and set-default-sink commands of a log
DefaultCmds(log) ==
  SelectSeq(log, LAMBDA cmd : cmd[1] \in {"set-default-source",
                                          "set-default-sink"})

\* the steps of a switch that were attempted: its set-default commands in
\* order, and the cards it issued a set-card-profile for
StepsAttempted(log) ==
  <<DefaultCmds(log), {c \in Cards : CardCmds(log, c) # <<>>}>>

SettingKeys == {"llm.enabled", "llm.api_key", "llm.model",
                "prompts.base.base_prompt"}
Missing == "<missing>"
SettingValues(key) ==
  IF key = "llm.enabled" THEN {"False", "True"}
  ELSE IF key = "llm.api_key" THEN {"", "sk-1"}
  ELSE IF key = "llm.model" THEN {"gpt-4.1-nano", "gpt-4o"}
  ELSE {"", "You are my editor."}

\* _get_default_base_prompts, settings_dialog.py:68-78
DefaultBasePrompt ==
  "You are an expert editor who specialises in cleaning up dictated text using British English conventions."

\* the default settings of _load_settings, line 47-66, with the base prompt
\* that _get_default_prompts found
DefaultSettings(base_prompt) ==
  [key \in SettingKeys |->
     IF key = "llm.enabled" THEN "False"
     ELSE IF key = "llm.api_key" THEN ""
     ELSE IF key = "llm.model" THEN "gpt-4.1-nano"
     ELSE base_prompt]

\* the files settings.json may be: absent, not parseable, or a dictionary
\* holding any of the keys
ConfigFiles ==
  {Absent, [exists |-> TRUE, json |-> <<>>]}
    \cup { [exists |-> TRUE, json |-> <<d>>] :
             d \in { dict \in [SettingKeys ->
                                UNION {SettingValues(key) : key \in SettingKeys}
                                  \cup {Missing}] :
                       \A key \in SettingKeys :
                         dict[key] \in SettingValues(key) \cup {Missing} } }

\* VoxVibeSettings.get(key, default), line 157-168: value = self._settings
\* raises AttributeError while the attribute does not exist
AttributeError == "AttributeError"
VoxVibeSettings_get(key, default) ==
  IF _settings = Unset THEN AttributeError
  ELSE IF _settings[1][key] = Missing THEN default
  ELSE _settings[1][key]

\* get_base_prompt, line 207-213
get_base_prompt ==
  LET custom_base == VoxVibeSettings_get("prompts.base.base_prompt", "")
  IN IF custom_base = AttributeError THEN AttributeError
     ELSE IF custom_base # "" THEN custom_base
     ELSE DefaultBasePrompt

\* __init__ (33-37) and _load_settings, line 41-46: the file exists and
\* json.load returns its dictionary; or it does not exist, or json.load
\* raises and the handler prints: the defaults are built next
_load_settings_read ==
  /\ vpc = "init"
  /\ IF config_file.exists /\ config_file.json # <<>>
       THEN /\ _settings' = config_file.json
            /\ vpc' = "constructed"
       ELSE /\ vpc' = "defaults"
            /\ UNCHANGED _settings
  /\ UNCHANGED <<config_file, baseVars, lpVars, dmVars, appVars, ctxVars,
                 hkVars, pasteVars>>

\* _load_settings, line 48-66: the dictionary of defaults is evaluated,
\* "prompts": self._get_default_prompts() (line 65) calls get_base_prompt
\* (line 83); an exception leaves _load_settings and __init__, the
\* assignment of line 37 is not made
_load_settings_defaults ==
  /\ vpc = "defaults"
  /\ IF get_base_prompt = AttributeError
       THEN /\ vpc' = "raised"
            /\ UNCHANGED _settings
       ELSE /\ _settings' = <<DefaultSettings(get_base_prompt)>>
            /\ vpc' = "constructed"
  /\ UNCHANGED <<config_file, baseVars, lpVars, dmVars, appVars, ctxVars,
                 hkVars, pasteVars>>

\* VoxVibeSettings.set(key, value), line 170-181, on a constructed object
VoxVibeSettings_set(key, value) ==
  /\ vpc = "constructed"
  /\ _settings' = <<[_settings[1] EXCEPT ![key] = value]>>
  /\ UNCHANGED <<config_file, vpc, baseVars, lpVars, dmVars, appVars,
                 ctxVars, hkVars, pasteVars>>

InitSettings ==
  /\ RecInit /\ SesInit /\ TrInit /\ LpInit /\ DmInit /\ AppInit
  /\ CtxGiven("")
  /\ HkInit /\ PasteInit
  /\ llm_enabled = FALSE
  /\ \E file \in ConfigFiles : CfgGiven(file)

NextSettings ==
  \/ _load_settings_read
  \/ _load_settings_defaults
  \/ \E key \in SettingKeys : \E value \in SettingValues(key) :
       VoxVibeSettings_set(key, value)

SpecSettings == InitSettings /\ [][NextSettings]_vars

\* C40: when settings.json is absent or cannot be parsed, the construction
\* of the settings object completes without raising and yields the
\* built-in defaults: LLM disabled, empty API key, default model and
\* default base prompt.
C40_DefaultsWithoutFile ==
  [][(vpc = "defaults" /\ (~config_file.exists \/ config_file.json = <<>>)) =>
       (vpc' = "constructed"
          /\ _settings' = <<DefaultSettings(DefaultBasePrompt)>>)]_vars

====
